---------------------------- MODULE Spec2Model ----------------------------
(***************************************************************************)
(* A model of the messaging application of alx-backend-python              *)
(* (Django-signals_orm-0x04/messaging): the Message / Notification /       *)
(* MessageHistory tables, the pre_save / post_save / post_delete signal    *)
(* handlers, the views, and the thread helpers of the Message model.       *)
(*                                                                         *)
(* The relational store is modelled with Django's documented semantics:    *)
(*   - Model.save() of an instance without pk sends pre_save, INSERTs the  *)
(*     row, then sends post_save(created=True); with a pk it sends         *)
(*     pre_save, UPDATEs every column from the in-memory instance and      *)
(*     sends post_save(created=False).  Outside transaction.atomic each    *)
(*     statement commits on its own (autocommit).                          *)
(*   - Model.delete() collects the rows reachable through on_delete        *)
(*     CASCADE, and inside one transaction applies the SET_NULL updates,   *)
(*     deletes the collected rows and sends post_delete.                   *)
(***************************************************************************)
EXTENDS Integers, Sequences, FiniteSets, TLC

\* ------------------------------------------------------------- bounds
MaxMsgs == 2
MaxHist == 2
MaxTime == 2
MaxThread == 4

\* ------------------------------------------------------------- domains
\* NULL of a foreign key or a timestamp; primary keys and times start at 1,
\* so NULL is also the only falsy id (views.py:66 `if parent_id`,
\* signals.py:25 `if not instance.pk`).
None == 0

Users == {1, 2, 3}

Contents == {"X", "Y", "Z"}

\* Request bodies may also carry an empty or a blank content.
ContentInputs == Contents \cup {"", " "}

\* str.strip() on the contents of the model: a blank string becomes empty.
Strip(c) == IF c = " " THEN "" ELSE c

Methods == {"GET", "POST", "DELETE"}

VARIABLES
    users,          \* ids of the existing rows of the user table
    messages,       \* function: id of an existing Message row -> the row
    notifications,  \* set of Notification rows
    histories,      \* set of MessageHistory rows
    lastId,         \* AUTOINCREMENT counters of the three tables
    now,            \* timezone.now()
    response,       \* what the last operation returned to its caller
    pc,             \* per worker: where it is inside Model.save()
    inst,           \* per worker: the in-memory Message instance
    old,            \* per worker: the row read by the pre_save receiver
    retry,          \* the call in progress of a retry_on_failure wrapper
    conn,           \* the sqlite3 connection of the decorators and its use
    cache,          \* query_cache and the database the cached function reads
    limiter,        \* OffensiveLanguageMiddleware: ip_timestamps, lock, threads
    pager           \* a lazy_pagination generator and its consumer

tables == <<users, messages, notifications, histories, lastId>>
workers == <<pc, inst, old>>
scripts == <<retry, conn, cache, limiter, pager>>
messaging == <<tables, now, response, workers>>
vars == <<users, messages, notifications, histories, lastId, now, response,
          pc, inst, old, retry, conn, cache, limiter, pager>>

Ids == DOMAIN messages

Restrict(f, S) == [x \in S |-> f[x]]

\* ------------------------------------------------------------- rows
NewMessage(id, s, r, c, p, t) ==
    [id |-> id, sender |-> s, receiver |-> r, parent_message |-> p,
     content |-> c, created_at |-> t,
     edited |-> FALSE, edited_at |-> None, edited_by |-> None]

NewNotification(id, u, m) ==
    [id |-> id, user |-> u, message |-> m, is_read |-> FALSE]

NewHistory(id, m, c, e, t) ==
    [id |-> id, message |-> m, old_content |-> c, edited_at |-> t,
     edited_by |-> e]

HistoryOf(m) == {h \in histories : h.message = m}

NotificationsOf(m) == {n \in notifications : n.message = m}

\* ------------------------------------------------------------- signals
\* Mutant: the receiver ignores `created` and notifies on every save.
notify_on_every_save(instance, created, notifs, nid) ==
    notifs \cup {NewNotification(nid, instance.receiver, instance.id)}

\* Mutant: the notification goes to the sender of the message.
notify_sender(instance, created, notifs, nid) ==
    IF created
    THEN notifs \cup {NewNotification(nid, instance.sender, instance.id)}
    ELSE notifs

\* post_save receiver of Message.
create_message_notification(instance, created, notifs, nid) ==
    IF created
    THEN notifs \cup {NewNotification(nid, instance.receiver, instance.id)}
    ELSE notifs

\* Mutant: the receiver snapshots on every save, changed or not.
snapshot_always(instance, prev, hists, hid, t) ==
    [histories |-> hists \cup
        {NewHistory(hid, prev.id, prev.content, instance.edited_by, t)},
     instance  |-> [instance EXCEPT !.edited = TRUE],
     created   |-> TRUE]

\* Mutant: the receiver snapshots the content being written, not the one
\* being overwritten.
snapshot_new_content(instance, prev, hists, hid, t) ==
    IF prev.content # instance.content
    THEN [histories |-> hists \cup
              {NewHistory(hid, prev.id, instance.content, instance.edited_by, t)},
          instance  |-> [instance EXCEPT !.edited = TRUE],
          created   |-> TRUE]
    ELSE [histories |-> hists, instance |-> instance, created |-> FALSE]

\* Mutant: the receiver marks the message edited on every save; it still
\* snapshots only a changed content.
mark_edited_always(instance, prev, hists, hid, t) ==
    [histories |-> IF prev.content # instance.content
                   THEN hists \cup {NewHistory(hid, prev.id, prev.content,
                                               instance.edited_by, t)}
                   ELSE hists,
     instance  |-> [instance EXCEPT
                      !.edited = TRUE,
                      !.edited_at = IF instance.edited_at = None THEN t
                                    ELSE instance.edited_at],
     created   |-> prev.content # instance.content]

\* Lines 31-40 of the pre_save receiver, given the row `prev` it has read:
\* the history rows and the in-memory instance afterwards.
snapshot_if_changed(instance, prev, hists, hid, t) ==
    IF prev.content # instance.content
    THEN [histories |-> hists \cup
              {NewHistory(hid, prev.id, prev.content, instance.edited_by, t)},
          instance  |-> [instance EXCEPT
              !.edited = TRUE,
              !.edited_at = IF instance.edited_at = None THEN t
                            ELSE instance.edited_at],
          created   |-> TRUE]
    ELSE [histories |-> hists, instance |-> instance, created |-> FALSE]

\* pre_save receiver of Message.
store_previous_version(instance, msgs, hists, hid, t) ==
    IF instance.id = None
    THEN [histories |-> hists, instance |-> instance, created |-> FALSE]
    ELSE IF instance.id \notin DOMAIN msgs
    THEN [histories |-> hists, instance |-> instance, created |-> FALSE]
    ELSE snapshot_if_changed(instance, msgs[instance.id], hists, hid, t)

\* post_delete receiver of User: MessageHistory.objects.filter(edited_by=u).delete()
delete_user_related_data(u, hists) ==
    {h \in hists : h.edited_by # u}

\* ------------------------------------------------------------- cascade
\* Mutant: the parent reference does not cascade beyond the direct replies.
direct_replies_only(S, msgs) ==
    S \cup {m \in DOMAIN msgs : msgs[m].parent_message \in S}

RECURSIVE WithReplies(_, _)
\* The messages the collector reaches from S through parent_message
\* (on_delete=CASCADE on the self reference).
WithReplies(S, msgs) ==
    LET T == S \cup {m \in DOMAIN msgs : msgs[m].parent_message \in S}
    IN IF T = S THEN S ELSE WithReplies(T, msgs)

\* Mutant: only the sender reference cascades.
CollectSentOnly(u, msgs) ==
    WithReplies({m \in DOMAIN msgs : msgs[m].sender = u}, msgs)

\* Mutant: edited_by cascades like sender and receiver instead of SET_NULL.
CollectAlsoEdited(u, msgs) ==
    WithReplies({m \in DOMAIN msgs :
                    \/ msgs[m].sender = u
                    \/ msgs[m].receiver = u
                    \/ msgs[m].edited_by = u}, msgs)

\* Message rows collected when user u is deleted: sender/receiver CASCADE,
\* then the replies of those, at any depth.
CollectMessages(u, msgs) ==
    WithReplies({m \in DOMAIN msgs :
                    msgs[m].sender = u \/ msgs[m].receiver = u}, msgs)

\* on_delete=SET_NULL of Message.edited_by.
SetNullMessages(u, msgs) ==
    [m \in DOMAIN msgs |->
        IF msgs[m].edited_by = u THEN [msgs[m] EXCEPT !.edited_by = None]
        ELSE msgs[m]]

\* on_delete=SET_NULL of MessageHistory.edited_by.
SetNullHistories(u, hists) ==
    {IF h.edited_by = u THEN [h EXCEPT !.edited_by = None] ELSE h : h \in hists}

\* user.delete(): the collector applies the SET_NULL updates, deletes the
\* collected rows, and then post_delete runs the receiver.
user_delete(u, db) ==
    LET gone   == CollectMessages(u, db.messages)
        msgs1  == SetNullMessages(u, db.messages)
        hists1 == SetNullHistories(u, db.histories)
        hists2 == {h \in hists1 : h.message \notin gone}
    IN [users         |-> db.users \ {u},
        messages      |-> Restrict(msgs1, DOMAIN msgs1 \ gone),
        notifications |-> {n \in db.notifications :
                              n.user # u /\ n.message \notin gone},
        histories     |-> delete_user_related_data(u, hists2)]

\* Mutant: no transaction around the collector: what ran before the
\* receiver raised stays committed.
collector_without_transaction(before, after, receiver_ok) ==
    after

\* The collector runs its statements and the post_delete receivers inside one
\* transaction: when the receiver raises, nothing of `after` is committed.
collector_transaction(before, after, receiver_ok) ==
    IF receiver_ok THEN after ELSE before

\* @transaction.atomic on a view: an exception rolls the request back.
transaction_atomic(before, after, ok) ==
    IF ok THEN after ELSE before

Db == [users |-> users, messages |-> messages,
       notifications |-> notifications, histories |-> histories]

Commit(db) ==
    /\ users' = db.users
    /\ messages' = db.messages
    /\ notifications' = db.notifications
    /\ histories' = db.histories

\* chats/middleware.py: the client addresses (REMOTE_ADDR) and the threads
\* of the server that handle requests.
IPs == {"10.0.0.1", "10.0.0.2"}
Handlers == {1, 2}

\* 4-cache_query.py: the non-empty query strings, and every query a call
\* can pass.
CachedQueries == {"SELECT * FROM users", "SELECT name FROM users"}
Queries == CachedQueries \cup {""}

\* ------------------------------------------------------------- operations
Reply(op, status) == [op |-> op, status |-> status]

Init ==
    /\ users = Users
    /\ messages = <<>>
    /\ notifications = {}
    /\ histories = {}
    /\ lastId = [message |-> 0, notification |-> 0, history |-> 0]
    /\ now = 1
    /\ response = Reply("none", 0)
    /\ pc = [w \in {1, 2} |-> "idle"]
    /\ inst = [w \in {1, 2} |-> None]
    /\ old = [w \in {1, 2} |-> None]
    /\ retry = [state |-> "idle", retries |-> 0, attempts |-> 0,
                calls |-> <<>>, last_exception |-> None, result |-> None]
    /\ conn = [calls |-> 0, log |-> <<>>]
    /\ cache = [query_cache |-> [q \in CachedQueries |-> <<>>],
                db          |-> 0,
                executions  |-> [q \in CachedQueries |-> 0],
                returns     |-> [q \in CachedQueries |-> 0],
                last        |-> [query |-> "", executed |-> FALSE,
                                 raises |-> FALSE, value |-> <<>>]]
    /\ limiter = [clock         |-> 0,
                  ip_timestamps |-> [ip \in IPs |-> <<>>],
                  threads       |-> [t \in Handlers |->
                                        [pc |-> "idle", ip |-> "", now |-> 0]],
                  requests      |-> 0,
                  accepted      |-> [ip \in IPs |-> <<>>],
                  last          |-> [ip |-> "", now |-> 0, status |-> 0,
                                     inside |-> 0, appended |-> FALSE]]
    /\ pager = [pc |-> "none", rows |-> 0, page_size |-> 0, offset |-> 0,
                requested |-> 0, stops |-> 0,
                fetches |-> <<>>, yielded |-> <<>>]

Tick ==
    /\ now < MaxTime
    /\ now' = now + 1
    /\ UNCHANGED <<tables, response, workers, scripts>>

\* Message.objects.create(...) followed by the post_save receiver; `atomic`
\* says whether the caller wrapped it in a transaction, `notify_ok` whether
\* the Notification INSERT succeeds.
objects_create(db, id, nid, msg, atomic, notify_ok) ==
    LET inserted == [db EXCEPT !.messages = db.messages @@ (id :> msg)]
        notified == [inserted EXCEPT !.notifications =
                        create_message_notification(msg, TRUE,
                                                    db.notifications, nid)]
    IN IF notify_ok THEN notified
       ELSE IF atomic THEN transaction_atomic(db, inserted, FALSE)
       ELSE inserted

\* user.username
Username(u) == <<"username", u>>

\* views.create_message: POST by the logged-in `caller`.
create_message(caller, receiver_id, content, parent_id, notify_ok) ==
    /\ caller \in users
    /\ UNCHANGED <<now, workers, scripts>>
    /\ IF receiver_id = None \/ Strip(content) = ""
       THEN /\ response' = Reply("create_message", 400)
            /\ UNCHANGED tables
       ELSE IF receiver_id \notin users
       THEN /\ response' = Reply("create_message", 400)
            /\ UNCHANGED tables
       ELSE IF parent_id # None /\ parent_id \notin Ids
       THEN /\ response' = Reply("create_message", 404)
            /\ UNCHANGED tables
       ELSE LET id  == lastId.message + 1
                nid == lastId.notification + 1
                msg == NewMessage(id, caller, receiver_id, content, parent_id, now)
            IN /\ Commit(objects_create(Db, id, nid, msg, TRUE, notify_ok))
               /\ lastId' = IF notify_ok
                            THEN [lastId EXCEPT !.message = id,
                                                !.notification = nid]
                            ELSE lastId
               /\ response' = IF notify_ok
                              THEN [op |-> "create_message", status |-> 201,
                                    id |-> id, sender |-> Username(caller)]
                              ELSE Reply("create_message", 500)

\* data.get(key, default) on the body of a request.
Get(data, key, default) == IF key \in DOMAIN data THEN data[key] ELSE default

\* Mutant: the view takes the sender from the body when the body names one.
create_message_trusting_body(caller, data, notify_ok) ==
    create_message(Get(data, "sender", caller), Get(data, "receiver_id", None),
                   Get(data, "content", ""), Get(data, "parent_id", None),
                   notify_ok)

\* Mutant: a parent id that names no message is dropped instead of refused.
create_message_dropping_parent(caller, data, notify_ok) ==
    create_message(caller, Get(data, "receiver_id", None),
                   Get(data, "content", ""),
                   IF Get(data, "parent_id", None) \in Ids
                   THEN data.parent_id ELSE None,
                   notify_ok)

\* views.create_message, lines 45-56: the fields the view reads from the
\* request body `data`; every other field of the body is ignored.
create_message_request(caller, data, notify_ok) ==
    create_message(caller, Get(data, "receiver_id", None),
                   Get(data, "content", ""), Get(data, "parent_id", None),
                   notify_ok)

\* Message.objects.create(sender=..., receiver=..., content=...) called
\* directly (tests.py, admin): no enclosing transaction.
model_create(sender, receiver, content, parent, notify_ok) ==
    /\ sender \in users
    /\ receiver \in users
    /\ parent = None \/ parent \in Ids
    /\ UNCHANGED <<now, workers, scripts>>
    /\ LET id  == lastId.message + 1
           nid == lastId.notification + 1
           msg == NewMessage(id, sender, receiver, content, parent, now)
       IN /\ Commit(objects_create(Db, id, nid, msg, FALSE, notify_ok))
          /\ lastId' = IF notify_ok
                       THEN [lastId EXCEPT !.message = id, !.notification = nid]
                       ELSE [lastId EXCEPT !.message = id]
          /\ response' = Reply("model_create", IF notify_ok THEN 0 ELSE 500)

\* Message.save() of an instance loaded from row m after the caller assigned
\* `content` and, when `assign`, `edited_by = editor`.
save_message(m, content, assign, editor) ==
    /\ m \in Ids
    /\ editor \in users \cup {None}
    /\ LET loaded == [messages[m] EXCEPT
                        !.content = content,
                        !.edited_by = IF assign THEN editor ELSE @]
           pre == store_previous_version(loaded, messages, histories,
                                         lastId.history + 1, now)
       IN /\ pre.created => lastId.history < MaxHist
          /\ histories' = pre.histories
          /\ lastId' = IF pre.created
                       THEN [lastId EXCEPT !.history = @ + 1] ELSE lastId
          /\ messages' = [messages EXCEPT ![m] = pre.instance]
          /\ notifications' =
                create_message_notification(pre.instance, FALSE, notifications,
                                            lastId.notification + 1)
          /\ response' = Reply("save", 0)
    /\ UNCHANGED <<users, now, workers, scripts>>

\* Message.save() as in save_message when the UPDATE of the message row
\* fails: pre_save has run before it, outside any transaction, so what the
\* receiver inserted is already committed.
save_message_failing(m, content, assign, editor) ==
    /\ m \in Ids
    /\ editor \in users \cup {None}
    /\ LET loaded == [messages[m] EXCEPT
                        !.content = content,
                        !.edited_by = IF assign THEN editor ELSE @]
           pre == store_previous_version(loaded, messages, histories,
                                         lastId.history + 1, now)
       IN /\ pre.created => lastId.history < MaxHist
          /\ histories' = pre.histories
          /\ lastId' = IF pre.created
                       THEN [lastId EXCEPT !.history = @ + 1] ELSE lastId
          /\ response' = Reply("save", 500)
    /\ UNCHANGED <<users, messages, notifications, now, workers, scripts>>

\* The change form of MessageAdmin (admin.py:12-18): every field of row m
\* except the read-only edited and edited_at and the non-editable created_at
\* can be set, the form checks that the rows named exist and that content is
\* not blank, and the row is saved through Message.save().
admin_change(m, sender, receiver, parent, content, editor) ==
    /\ m \in Ids
    /\ sender \in users
    /\ receiver \in users
    /\ parent \in Ids \cup {None}
    /\ editor \in users \cup {None}
    /\ Strip(content) # ""
    /\ LET loaded == [messages[m] EXCEPT
                        !.sender = sender,
                        !.receiver = receiver,
                        !.parent_message = parent,
                        !.content = content,
                        !.edited_by = editor]
           pre == store_previous_version(loaded, messages, histories,
                                         lastId.history + 1, now)
       IN /\ pre.created => lastId.history < MaxHist
          /\ histories' = pre.histories
          /\ lastId' = IF pre.created
                       THEN [lastId EXCEPT !.history = @ + 1] ELSE lastId
          /\ messages' = [messages EXCEPT ![m] = pre.instance]
          /\ notifications' =
                create_message_notification(pre.instance, FALSE, notifications,
                                            lastId.notification + 1)
          /\ response' = Reply("admin_change", 302)
    /\ UNCHANGED <<users, now, workers, scripts>>

\* views.delete_user: request.user.delete(); `purge_ok` says whether the
\* DELETE issued by the post_delete receiver succeeds.
delete_user(caller, method, purge_ok) ==
    /\ caller \in users
    /\ UNCHANGED <<lastId, now, workers, scripts>>
    /\ IF method \notin {"POST", "DELETE"}
       THEN /\ response' = Reply("delete_user", 405)
            /\ UNCHANGED <<users, messages, notifications, histories>>
       ELSE /\ Commit(collector_transaction(Db, user_delete(caller, Db), purge_ok))
            /\ response' = [op |-> "delete_user",
                            status |-> IF purge_ok THEN 200 ELSE 500,
                            user |-> caller]

\* ------------------------------------------------------------- Spec
\* Users 1 and 2 send to user 2; a message is edited with the editor left as
\* it is or set to user 3.  The clock stands still.
Send ==
    /\ lastId.message < MaxMsgs
    /\ \E caller \in {1, 2}, r \in {2, None}, c \in {"X", "", " "},
          p \in (1 .. MaxMsgs) \cup {None} :
            create_message(caller, r, c, p, TRUE)

Edit ==
    \E m \in 1 .. MaxMsgs, c \in Contents :
        \/ save_message(m, c, FALSE, None)
        \/ save_message(m, c, TRUE, 3)

Create ==
    /\ lastId.message < MaxMsgs
    /\ \E s \in {1, 2}, p \in (1 .. MaxMsgs) \cup {None} :
            model_create(s, 2, "X", p, TRUE)

Next ==
    \/ Send
    \/ Create
    \/ Edit

Spec == Init /\ [][Next]_vars

\* ------------------------------------------------------------- SpecClock
\* The operations of Spec while the clock advances.
NextClock ==
    \/ Tick
    \/ Send
    \/ Edit

SpecClock == Init /\ [][NextClock]_vars

\* ------------------------------------------------------------- SpecSend
\* Users 1 and 2 post request bodies: a receiver that exists (2, 3), one that
\* does not (4) or none; content that is text, blank or missing; a parent id
\* or none; and, in some bodies, a `sender` field naming user 3.
Bodies ==
    [receiver_id : {2, 3, 4, None}, content : {"X", "Y", " "},
     parent_id : (1 .. MaxMsgs) \cup {None}]
    \cup [receiver_id : {2, 3, 4}, parent_id : (1 .. MaxMsgs) \cup {None}]
    \cup [receiver_id : {2, 3, 4, None}, content : {"X", "Y", " "},
          parent_id : (1 .. MaxMsgs) \cup {None}, sender : {3}]

SendRequest ==
    /\ lastId.message < MaxMsgs
    /\ \E caller \in {1, 2}, data \in Bodies :
            create_message_request(caller, data, TRUE)

NextSend ==
    \/ SendRequest

SpecSend == Init /\ [][NextSend]_vars

\* ------------------------------------------------------------- SpecDelete
\* Users 1 and 2 send to users 2 and 3, users 1 and 3 rewrite a message
\* naming themselves as editor, and every user deletes its account.
SendAny ==
    /\ lastId.message < MaxMsgs
    /\ \E caller \in {1, 2}, r \in {2, 3}, p \in (1 .. MaxMsgs) \cup {None} :
            create_message(caller, r, "X", p, TRUE)

EditAs ==
    \E m \in 1 .. MaxMsgs, e \in {1, 3} :
        e \in users /\ save_message(m, "Y", TRUE, e)

DeleteAccount ==
    \E caller \in Users, method \in Methods : delete_user(caller, method, TRUE)

NextDelete ==
    \/ SendAny
    \/ EditAs
    \/ DeleteAccount

SpecDelete == Init /\ [][NextDelete]_vars

\* ------------------------------------------------------------- SpecRefs
\* Mutant: the revisions of the deleted messages stay.
delete_messages_keeping_history(gone, db) ==
    [db EXCEPT !.messages = Restrict(@, DOMAIN @ \ gone),
               !.notifications = {n \in @ : n.message \notin gone}]

\* The DELETEs of the collector for the messages `gone`: Notification.message
\* and MessageHistory.message are on_delete=CASCADE.
delete_messages(gone, db) ==
    [db EXCEPT !.messages = Restrict(@, DOMAIN @ \ gone),
               !.notifications = {n \in @ : n.message \notin gone},
               !.histories = {h \in @ : h.message \notin gone}]

\* Message.delete() of row m, as the delete view of MessageAdmin does.
message_delete(m) ==
    /\ m \in Ids
    /\ Commit(delete_messages(WithReplies({m}, messages), Db))
    /\ response' = [op |-> "message_delete", status |-> 302, message |-> m]
    /\ UNCHANGED <<lastId, now, workers, scripts>>

\* User 1 sends to users 2 and 3, replying to any stored message; user 3
\* edits messages; messages and the accounts of users 2 and 3 are deleted.
RefSend ==
    /\ lastId.message < MaxMsgs + 1
    /\ \E r \in {2, 3}, p \in Ids \cup {None} :
            create_message(1, r, "X", p, TRUE)

RefEdit == \E m \in 1 .. MaxMsgs : save_message(m, "Y", TRUE, 3)

DeleteMessage == \E m \in 1 .. MaxMsgs + 1 : message_delete(m)

DeleteOwnAccount == \E caller \in {2, 3} : delete_user(caller, "POST", TRUE)

NextRefs ==
    \/ RefSend
    \/ RefEdit
    \/ DeleteMessage
    \/ DeleteOwnAccount

SpecRefs == Init /\ [][NextRefs]_vars

\* ------------------------------------------------------------- SpecFault
\* Message creation when the INSERT issued by the post_save receiver can
\* fail.
SendFaulty ==
    /\ lastId.message < MaxMsgs
    /\ \E caller \in {1, 2}, r \in {2, 3}, p \in (1 .. MaxMsgs) \cup {None},
          ok \in BOOLEAN :
            create_message(caller, r, "X", p, ok)

CreateFaulty ==
    /\ lastId.message < MaxMsgs
    /\ \E s \in {1, 2}, r \in {2, 3}, p \in (1 .. MaxMsgs) \cup {None},
          ok \in BOOLEAN :
            model_create(s, r, "X", p, ok)

NextFault ==
    \/ SendFaulty
    \/ CreateFaulty
    \/ EditAs

SpecFault == Init /\ [][NextFault]_vars

\* ------------------------------------------------------------- SpecPurge
\* Account deletion when the DELETE issued by the post_delete receiver can
\* fail.
DeleteFaulty ==
    \E caller \in Users, ok \in BOOLEAN : delete_user(caller, "POST", ok)

NextPurge ==
    \/ SendAny
    \/ EditAs
    \/ DeleteFaulty

SpecPurge == Init /\ [][NextPurge]_vars

\* ------------------------------------------------------------- threads
\* The order of a queryset .order_by('created_at'): by created_at, rows with
\* equal created_at in an order the database chooses (`tie`: by ascending or
\* by descending id).
Before(a, b, msgs, tie) ==
    \/ msgs[a].created_at < msgs[b].created_at
    \/ /\ msgs[a].created_at = msgs[b].created_at
       /\ IF tie = "asc" THEN a < b ELSE a > b

RECURSIVE OrderByCreatedAt(_, _, _)
OrderByCreatedAt(S, msgs, tie) ==
    IF S = {} THEN <<>>
    ELSE LET first == CHOOSE a \in S : \A b \in S \ {a} : Before(a, b, msgs, tie)
         IN <<first>> \o OrderByCreatedAt(S \ {first}, msgs, tie)

Range(seq) == {seq[i] : i \in 1 .. Len(seq)}

\* list.sort(key=lambda x: x.created_at): stable, ascending.
RECURSIVE SortByCreatedAt(_, _)
SortByCreatedAt(seq, msgs) ==
    IF seq = <<>> THEN <<>>
    ELSE LET i == CHOOSE j \in 1 .. Len(seq) :
                    /\ \A k \in 1 .. Len(seq) :
                          msgs[seq[j]].created_at <= msgs[seq[k]].created_at
                    /\ \A k \in 1 .. (j - 1) :
                          msgs[seq[k]].created_at > msgs[seq[j]].created_at
         IN <<seq[i]>> \o
            SortByCreatedAt(SubSeq(seq, 1, i - 1) \o SubSeq(seq, i + 1, Len(seq)),
                            msgs)

\* Mutant: only the direct replies are fetched (no loop over the levels).
RECURSIVE first_level_only(_, _, _, _)
first_level_only(current_ids, descendants, msgs, tie) ==
    descendants \o
        OrderByCreatedAt({m \in DOMAIN msgs : msgs[m].parent_message \in current_ids},
                         msgs, tie)

\* The while loop of Message.get_all_replies: one query per depth level.
RECURSIVE replies_loop(_, _, _, _)
replies_loop(current_ids, descendants, msgs, tie) ==
    LET children ==
            OrderByCreatedAt({m \in DOMAIN msgs :
                                 msgs[m].parent_message \in current_ids}, msgs, tie)
    IN IF children = <<>> THEN descendants
       ELSE replies_loop(Range(children), descendants \o children, msgs, tie)

\* Message.get_all_replies: ids of all descendants, breadth first.
get_all_replies(self, msgs, tie) ==
    replies_loop({self}, <<>>, msgs, tie)

\* Mutant: the climb goes up one level only.
climb_one_level(root, seen, msgs) ==
    IF msgs[root].parent_message # None THEN msgs[root].parent_message ELSE root

\* The climb of Message.get_thread_messages.
RECURSIVE climb(_, _, _)
climb(root, seen, msgs) ==
    IF msgs[root].parent_message # None /\ msgs[root].parent_message \notin seen
    THEN climb(msgs[root].parent_message, seen \cup {root}, msgs)
    ELSE root

\* Message.get_thread_messages: [root] + root.get_all_replies().
get_thread_messages(self, msgs, tie) ==
    LET root == climb(self, {}, msgs)
    IN <<root>> \o get_all_replies(root, msgs, tie)

\* timezone.localtime(t).isoformat() if t else None
IsoFormat(t) == IF t = None THEN <<>> ELSE <<"iso", t>>

\* children_map.get(msg.id, []) after each group was sorted.
ChildrenOf(p, all_msgs, msgs) ==
    SortByCreatedAt(SelectSeq(Tail(all_msgs),
                              LAMBDA m : msgs[m].parent_message = p), msgs)

RECURSIVE serialize(_, _, _)
serialize(msg, all_msgs, msgs) ==
    LET children == ChildrenOf(msg, all_msgs, msgs)
    IN [id         |-> msg,
        content    |-> msgs[msg].content,
        sender     |-> Username(msgs[msg].sender),
        receiver   |-> Username(msgs[msg].receiver),
        created_at |-> IsoFormat(msgs[msg].created_at),
        edited     |-> msgs[msg].edited,
        replies    |-> [i \in 1 .. Len(children) |->
                           serialize(children[i], all_msgs, msgs)]]

\* Message.build_thread_tree
build_thread_tree(self, msgs, tie) ==
    LET root     == get_thread_messages(self, msgs, tie)[1]
        all_msgs == get_thread_messages(root, msgs, tie)
    IN serialize(root, all_msgs, msgs)

\* Mutant: what the comment of views.py:154 says, any participant of the
\* thread may read it.
participates_anywhere(caller, root, message, msgs) ==
    \E m \in DOMAIN msgs :
        /\ climb(m, {}, msgs) = root
        /\ caller \in {msgs[m].sender, msgs[m].receiver}

\* The permission test of views.thread_detail (line 156).
may_read_thread(caller, root, message, msgs) ==
    caller \in {msgs[root].sender, msgs[root].receiver,
                msgs[message].sender, msgs[message].receiver}

\* The answer of thread_detail to `caller` asking for `message_id`.
ThreadAnswer(caller, message_id, status) ==
    [op |-> "thread_detail", status |-> status,
     user |-> caller, message |-> message_id]

\* Lines 155-160 of views.thread_detail, for a message that exists.  When
\* the climb stops on a message that still has a parent, that message lies on
\* a cycle of parent links: every pass of the while loop of get_all_replies
\* then finds the members of the cycle again, `children` is never empty and
\* the view never answers (status 0).
thread_found(caller, message_id, tie) ==
    LET root == climb(message_id, {}, messages)
    IN IF messages[root].parent_message # None
       THEN ThreadAnswer(caller, message_id, 0)
       ELSE IF ~may_read_thread(caller, root, message_id, messages)
       THEN ThreadAnswer(caller, message_id, 403)
       ELSE [op |-> "thread_detail", status |-> 200,
             user |-> caller, message |-> message_id,
             tree |-> build_thread_tree(message_id, messages, tie)]

\* Mutant: a message id that does not exist is answered with an empty tree.
thread_detail_empty_when_missing(caller, message_id, tie) ==
    /\ caller \in users
    /\ UNCHANGED <<tables, now, workers, scripts>>
    /\ response' = IF message_id \notin Ids
                   THEN [op |-> "thread_detail", status |-> 200,
                         user |-> caller, message |-> message_id,
                         tree |-> <<>>]
                   ELSE thread_found(caller, message_id, tie)

\* views.thread_detail: get_object_or_404(Message, pk=message_id), then the
\* answer for the message found.
thread_detail(caller, message_id, tie) ==
    /\ caller \in users
    /\ UNCHANGED <<tables, now, workers, scripts>>
    /\ response' = IF message_id \notin Ids
                   THEN ThreadAnswer(caller, message_id, 404)
                   ELSE thread_found(caller, message_id, tie)

\* ------------------------------------------------------------- SpecThread
\* User 1 writes to user 2, replying to any earlier message; users 1 and 3
\* read threads.
ThreadReply ==
    /\ lastId.message < MaxThread
    /\ \E p \in (1 .. MaxThread) \cup {None} : create_message(1, 2, "X", p, TRUE)

ThreadRead ==
    \E caller \in {1, 3}, m \in 1 .. MaxThread, tie \in {"asc", "desc"} :
        thread_detail(caller, m, tie)

NextThread ==
    \/ Tick
    \/ ThreadReply
    \/ ThreadRead

SpecThread == Init /\ [][NextThread]_vars

\* ------------------------------------------------------------- SpecAccess
\* Users 1 and 3 write to user 2, replying to any earlier message, and read
\* threads from any entry point.  The clock stands still, so all messages
\* carry the same created_at.
ReplyAs ==
    /\ lastId.message < MaxThread
    /\ \E s \in {1, 3}, p \in (1 .. MaxThread) \cup {None} :
            create_message(s, 2, "X", p, TRUE)

NextAccess ==
    \/ ReplyAs
    \/ ThreadRead

SpecAccess == Init /\ [][NextAccess]_vars

\* ------------------------------------------------------------- SpecSaveFault
\* Sending and editing as in SpecDelete when the UPDATE of an edit can fail.
EditFailing ==
    \E m \in 1 .. MaxMsgs, e \in {1, 3} :
        e \in users /\ save_message_failing(m, "Y", TRUE, e)

NextSaveFault ==
    \/ SendAny
    \/ EditAs
    \/ EditFailing

SpecSaveFault == Init /\ [][NextSaveFault]_vars

\* ------------------------------------------------------------- SpecAdmin
\* Users 1 and 2 send to users 2 and 3, staff changes the sender, receiver
\* or parent of a message in the admin, and users 1 and 3 read threads.
AdminChange ==
    \E m \in 1 .. MaxMsgs, s \in {1, 3}, r \in {2, 3},
       p \in (1 .. MaxMsgs) \cup {None} :
        /\ m \in Ids
        /\ admin_change(m, s, r, p, messages[m].content, messages[m].edited_by)

NextAdmin ==
    \/ SendAny
    \/ AdminChange
    \/ ThreadRead

SpecAdmin == Init /\ [][NextAdmin]_vars

\* ------------------------------------------------------------- unread inbox
\* The managers class Message defines (models.py:55): `objects` only.
Managers == {"objects"}

\* UnreadMessagesManager.unread_for_user (managers.py), a class no model
\* uses: the unread messages addressed to `user`.
unread_for_user(user, msgs) ==
    {m \in DOMAIN msgs : ~msgs[m].read /\ msgs[m].receiver = user}

\* qs.order_by('-created_at'), then the rows of qs[:50] as the view lists
\* them.
unread_results(ids, msgs, tie) ==
    LET asc == OrderByCreatedAt(ids, msgs, tie)
    IN [i \in 1 .. Len(asc) |->
           LET m == asc[Len(asc) + 1 - i]
           IN [id |-> m, content |-> msgs[m].content,
               sender |-> Username(msgs[m].sender),
               receiver |-> Username(msgs[m].receiver),
               created_at |-> IsoFormat(msgs[m].created_at),
               read |-> msgs[m].read]]

\* Mutant: the fetch marks the caller's notifications as read.
unread_inbox_marking_read(caller, tie) ==
    /\ caller \in users
    /\ UNCHANGED <<users, messages, histories, lastId, now, workers, scripts>>
    /\ notifications' = {IF n.user = caller THEN [n EXCEPT !.is_read = TRUE]
                         ELSE n : n \in notifications}
    /\ response' = [op |-> "unread_inbox", status |-> 500, user |-> caller]

\* views.unread_inbox.  Line 125 evaluates Message.unread, an attribute the
\* class does not have: AttributeError, which Django answers with 500 before
\* any query is made.
unread_inbox(caller, tie) ==
    /\ caller \in users
    /\ UNCHANGED <<tables, now, workers, scripts>>
    /\ response' =
          IF "unread" \notin Managers
          THEN [op |-> "unread_inbox", status |-> 500, user |-> caller]
          ELSE [op |-> "unread_inbox", status |-> 200, user |-> caller,
                results |-> unread_results(unread_for_user(caller, messages),
                                           messages, tie)]

\* ------------------------------------------------------------- SpecInbox
\* Users 1 and 2 send to users 2 and 3; every user fetches its unread inbox.
FetchUnread ==
    \E caller \in Users, tie \in {"asc", "desc"} : unread_inbox(caller, tie)

NextInbox ==
    \/ SendAny
    \/ EditAs
    \/ FetchUnread

SpecInbox == Init /\ [][NextInbox]_vars

\* ------------------------------------------------------------- inbox
\* The cap of views.inbox_threads: `for m in qs[:50]`.
InboxCap == 50

\* Mutant: the reply count is the number of all descendants.
count_descendants(m, msgs) ==
    Len(get_all_replies(m, msgs, "asc"))

\* m.replies.count(): the rows whose parent_message is m.
reply_count(m, msgs) ==
    Cardinality({c \in DOMAIN msgs : msgs[c].parent_message = m})

\* The queryset of views.inbox_threads, newest first, cut at the cap.
inbox_rows(caller, msgs, tie) ==
    LET asc == OrderByCreatedAt({m \in DOMAIN msgs :
                                    /\ msgs[m].receiver = caller
                                    /\ msgs[m].parent_message = None},
                                msgs, tie)
        n   == IF Len(asc) < InboxCap THEN Len(asc) ELSE InboxCap
    IN [i \in 1 .. n |-> asc[Len(asc) + 1 - i]]

\* views.inbox_threads
inbox_threads(caller, tie) ==
    /\ caller \in users
    /\ UNCHANGED <<tables, now, workers, scripts>>
    /\ response' =
          [op |-> "inbox_threads", status |-> 200, user |-> caller,
           results |->
              LET rows == inbox_rows(caller, messages, tie)
              IN [i \in 1 .. Len(rows) |->
                     [id          |-> rows[i],
                      content     |-> messages[rows[i]].content,
                      sender      |-> Username(messages[rows[i]].sender),
                      receiver    |-> Username(messages[rows[i]].receiver),
                      created_at  |-> IsoFormat(messages[rows[i]].created_at),
                      reply_count |-> reply_count(rows[i], messages)]]]

\* ------------------------------------------------------------- SpecInboxThreads
\* User 1 writes to users 2 and 3, replying to any earlier message, while
\* the clock advances; users 2 and 3 list their inboxes.  Beyond MaxThread
\* messages the runs followed are those in which every message is a root
\* from user 1 to user 2 and user 1 goes on sending such roots in one
\* instant, up to MaxInbox messages.
MaxInbox == 52

InboxSend ==
    /\ lastId.message < MaxThread
    /\ \E r \in {2, 3}, p \in (1 .. MaxThread) \cup {None} :
            create_message(1, r, "X", p, TRUE)

InboxBurst ==
    /\ lastId.message >= MaxThread
    /\ lastId.message < MaxInbox
    /\ \A m \in Ids :
          /\ messages[m].receiver = 2 /\ messages[m].parent_message = None
          /\ m > MaxThread => messages[m].created_at = now
    /\ create_message(1, 2, "X", None, TRUE)

InboxRead ==
    \E caller \in {2, 3}, tie \in {"asc", "desc"} : inbox_threads(caller, tie)

NextInboxThreads ==
    \/ Tick
    \/ InboxSend
    \/ InboxBurst
    \/ InboxRead

SpecInboxThreads == Init /\ [][NextInboxThreads]_vars

\* ------------------------------------------------------------- SpecConc
\* Two workers run msg.save() concurrently.  Nothing in signals.py or in the
\* callers of save() opens a transaction or locks the row, so the statements
\* of one save (the SELECT and the INSERT of the pre_save receiver, then the
\* UPDATE) commit one by one and interleave with the other worker's.
Workers == {1, 2}

\* msg = Message.objects.get(pk=m); msg.content = content; msg.save() begins.
begin_save(w, m, content) ==
    /\ pc[w] = "idle"
    /\ m \in Ids
    /\ inst' = [inst EXCEPT ![w] = [messages[m] EXCEPT !.content = content]]
    /\ pc' = [pc EXCEPT ![w] = "pre_save"]
    /\ UNCHANGED <<tables, now, scripts, response, old>>

\* signals.py:25-30: old = Message.objects.get(pk=instance.pk)
pre_save_read(w) ==
    /\ pc[w] = "pre_save"
    /\ IF inst[w].id \in Ids
       THEN /\ old' = [old EXCEPT ![w] = messages[inst[w].id]]
            /\ pc' = [pc EXCEPT ![w] = "compare"]
       ELSE /\ pc' = [pc EXCEPT ![w] = "update"]
            /\ UNCHANGED old
    /\ UNCHANGED <<tables, now, scripts, response, inst>>

\* signals.py:31-40: compare, MessageHistory.objects.create, mark edited.
pre_save_snapshot(w) ==
    /\ pc[w] = "compare"
    /\ LET pre == snapshot_if_changed(inst[w], old[w], histories,
                                      lastId.history + 1, now)
       IN /\ pre.created => lastId.history < MaxHist
          /\ histories' = pre.histories
          /\ lastId' = IF pre.created
                       THEN [lastId EXCEPT !.history = @ + 1] ELSE lastId
          /\ inst' = [inst EXCEPT ![w] = pre.instance]
    /\ pc' = [pc EXCEPT ![w] = "update"]
    /\ UNCHANGED <<users, messages, notifications, now, scripts, response, old>>

\* The UPDATE of Model.save(), every column from the instance, then
\* post_save with created=False.
save_update(w) ==
    /\ pc[w] = "update"
    /\ inst[w].id \in Ids
    /\ messages' = [messages EXCEPT ![inst[w].id] = inst[w]]
    /\ notifications' =
          create_message_notification(inst[w], FALSE, notifications,
                                      lastId.notification + 1)
    /\ response' = Reply("save", 0)
    /\ pc' = [pc EXCEPT ![w] = "idle"]
    /\ inst' = [inst EXCEPT ![w] = None]
    /\ old' = [old EXCEPT ![w] = None]
    /\ UNCHANGED <<users, histories, lastId, now, scripts>>

SendX ==
    /\ lastId.message < MaxMsgs
    /\ create_message(1, 2, "X", None, TRUE)

\* Worker 1 writes Y, worker 2 writes Z.
Target(w) == IF w = 1 THEN "Y" ELSE "Z"

BeginSave == \E w \in Workers, m \in 1 .. MaxMsgs : begin_save(w, m, Target(w))

PreSaveRead == \E w \in Workers : pre_save_read(w)

PreSaveSnapshot == \E w \in Workers : pre_save_snapshot(w)

SaveUpdate == \E w \in Workers : save_update(w)

NextConc ==
    \/ SendX
    \/ BeginSave
    \/ PreSaveRead
    \/ PreSaveSnapshot
    \/ SaveUpdate

SpecConc == Init /\ [][NextConc]_vars

\* ------------------------------------------------------------- thread walk
\* views.thread_detail query by query.  The view runs the traversal of
\* Message.get_thread_messages three times: at views.py:155 from the message
\* asked for (stage 1), at models.py:109 from the same message (stage 2) and
\* at models.py:110 from the root found (stage 3); the tree is built from
\* the rows of stage 3.  pc[w] is the position of worker w in the view and
\* inst[w] holds the locals of the call:
\*   user, message    request.user and the row get_object_or_404 returned
\*   root, seen       the locals of the climb (root is a row)
\*   current_ids      the frontier of get_all_replies
\*   descendants      the rows fetched so far, in the order fetched
\*   fetches          the queries the while loop of get_all_replies has made
\*   before           the ids stored when the traversal began (not a local
\*                    of the code; kept to state the claims)
MaxFetch == 5

\* The rows of a sequence of ids.
Rows(ids, msgs) == [i \in 1 .. Len(ids) |-> msgs[ids[i]]]

\* The ids of a sequence of rows.
RowIds(rows) == [i \in 1 .. Len(rows) |-> rows[i].id]

\* The rows of a sequence as a function from id to row.
RowMap(rows) ==
    [m \in Range(RowIds(rows)) |->
        CHOOSE r \in Range(rows) : r.id = m]

\* Locals at the start of a traversal from the row `self`.
walk_start(locals, stage, self) ==
    [locals EXCEPT !.stage = stage, !.root = self, !.seen = {},
                   !.current_ids = {}, !.descendants = <<>>,
                   !.fetches = 0, !.before = Ids]

\* views.py:150-155: get_object_or_404, then message.get_thread_messages().
walk_begin(w, caller, message_id) ==
    /\ pc[w] = "idle"
    /\ caller \in users
    /\ IF message_id \notin Ids
       THEN /\ response' = ThreadAnswer(caller, message_id, 404)
            /\ UNCHANGED <<pc, inst>>
       ELSE /\ inst' = [inst EXCEPT ![w] =
                 walk_start([user |-> caller, message |-> messages[message_id],
                             stage |-> 1, root |-> messages[message_id],
                             seen |-> {}, current_ids |-> {},
                             descendants |-> <<>>, fetches |-> 0,
                             before |-> Ids],
                            1, messages[message_id])]
            /\ pc' = [pc EXCEPT ![w] = "climb"]
            /\ UNCHANGED response
    /\ UNCHANGED <<tables, now, scripts, old>>

\* One pass of the while loop of get_thread_messages (models.py:98-100):
\* root.parent_message loads the parent row.  When the loop ends,
\* root.get_all_replies() starts with current_ids = [root.id].
walk_climb(w) ==
    /\ pc[w] = "climb"
    /\ LET L == inst[w]
           parent == L.root.parent_message
       IN IF parent # None /\ parent \notin L.seen
          THEN IF parent \in Ids
               THEN /\ inst' = [inst EXCEPT ![w] =
                          [L EXCEPT !.seen = @ \cup {L.root.id},
                                    !.root = messages[parent]]]
                    /\ UNCHANGED <<pc, response>>
               ELSE /\ response' = ThreadAnswer(L.user, L.message.id, 500)
                    /\ pc' = [pc EXCEPT ![w] = "idle"]
                    /\ inst' = [inst EXCEPT ![w] = None]
          ELSE /\ inst' = [inst EXCEPT ![w] =
                     [L EXCEPT !.current_ids = {L.root.id}]]
               /\ pc' = [pc EXCEPT ![w] = "fetch"]
               /\ UNCHANGED response
    /\ UNCHANGED <<tables, now, scripts, old>>

\* Mutant: the frontier keeps the ids of the levels already fetched.
frontier_kept(current_ids, children) ==
    current_ids \cup Range(RowIds(children))

\* models.py:86: current_ids = [m.id for m in children]
next_frontier(current_ids, children) ==
    Range(RowIds(children))

\* Mutant: the rows of the deepest level fetched are dropped.
walk_rows_without_last_level(locals) ==
    <<locals.root>> \o
        SelectSeq(locals.descendants,
                  LAMBDA r : r.id \notin locals.current_ids)

\* models.py:101: [root] + root.get_all_replies()
walk_rows(locals) ==
    <<locals.root>> \o locals.descendants

\* One pass of the while loop of get_all_replies (models.py:78-86): the
\* query of one level; an empty level ends the loop.
walk_fetch(w, tie) ==
    /\ pc[w] = "fetch"
    /\ inst[w].fetches < MaxFetch
    /\ LET L == inst[w]
           children ==
               Rows(OrderByCreatedAt({m \in Ids :
                        messages[m].parent_message \in L.current_ids},
                        messages, tie), messages)
       IN IF children = <<>>
          THEN /\ inst' = [inst EXCEPT ![w] = [L EXCEPT !.fetches = @ + 1]]
               /\ pc' = [pc EXCEPT ![w] = "walked"]
          ELSE /\ inst' = [inst EXCEPT ![w] =
                     [L EXCEPT !.fetches = @ + 1,
                               !.descendants = @ \o children,
                               !.current_ids =
                                   next_frontier(L.current_ids, children)]]
               /\ UNCHANGED pc
    /\ UNCHANGED <<tables, now, scripts, response, old>>

\* What follows a finished traversal: the permission test of views.py:156
\* after stage 1, the next traversal after stages 1 and 2, and the tree and
\* the answer after stage 3 (models.py:111-130, views.py:159-160).
walk_next(w) ==
    /\ pc[w] = "walked"
    /\ LET L == inst[w]
           all == walk_rows(L)
       IN IF L.stage = 1 /\ ~may_read_thread(L.user, all[1].id, L.message.id,
                                    (all[1].id :> all[1])
                                        @@ (L.message.id :> L.message))
          THEN /\ response' = ThreadAnswer(L.user, L.message.id, 403)
               /\ pc' = [pc EXCEPT ![w] = "idle"]
               /\ inst' = [inst EXCEPT ![w] = None]
          ELSE IF L.stage < 3
          THEN /\ inst' = [inst EXCEPT ![w] =
                     walk_start(L, L.stage + 1,
                                IF L.stage = 1 THEN L.message ELSE all[1])]
               /\ pc' = [pc EXCEPT ![w] = "climb"]
               /\ UNCHANGED response
          ELSE /\ response' =
                     [op |-> "thread_detail", status |-> 200,
                      user |-> L.user, message |-> L.message.id,
                      tree |-> serialize(all[1].id, RowIds(all), RowMap(all))]
               /\ pc' = [pc EXCEPT ![w] = "idle"]
               /\ inst' = [inst EXCEPT ![w] = None]
    /\ UNCHANGED <<tables, now, scripts, old>>

\* ------------------------------------------------------------- SpecWalk
\* User 1 writes to user 2, replying to any stored message, while worker 1
\* answers thread requests of users 1 and 3 query by query.
WalkReply ==
    /\ lastId.message < MaxMsgs + 1
    /\ \E p \in Ids \cup {None} : create_message(1, 2, "X", p, TRUE)

WalkBegin ==
    \E caller \in {1, 3}, m \in 1 .. MaxMsgs + 1 : walk_begin(1, caller, m)

WalkClimb == walk_climb(1)

WalkFetch == \E tie \in {"asc", "desc"} : walk_fetch(1, tie)

WalkNext == walk_next(1)

NextWalk ==
    \/ WalkReply
    \/ WalkBegin
    \/ WalkClimb
    \/ WalkFetch
    \/ WalkNext

SpecWalk == Init /\ [][NextWalk]_vars

\* ------------------------------------------------------------- SpecWalkAdmin
\* Sending and admin changes as in SpecAdmin, the admin saving only while no
\* thread request is in progress, and thread requests answered query by
\* query.
WalkAdminChange ==
    /\ \A w \in Workers : pc[w] = "idle"
    /\ AdminChange

WalkBeginAny ==
    \E caller \in {1, 3}, m \in 1 .. MaxMsgs : walk_begin(1, caller, m)

NextWalkAdmin ==
    \/ SendAny
    \/ WalkAdminChange
    \/ WalkBeginAny
    \/ WalkClimb
    \/ WalkFetch
    \/ WalkNext

SpecWalkAdmin == Init /\ [][NextWalkAdmin]_vars

\* ------------------------------------------------------------- retry_on_failure
\* python-decorators-0x01/3-retry_on_failure.py.  What one invocation of the
\* wrapped function does: it returns, it raises an exception of a class
\* derived from Exception, or it raises one that is not (KeyboardInterrupt).
MaxRetries == 3

Outcomes == {"ok", "OperationalError", "ValueError", "KeyboardInterrupt"}

IsException(o) == o \in {"OperationalError", "ValueError"}

\* wrapper(*args, **kwargs) is entered with retries = n (lines 49-51).
retry_enter(n) ==
    [state |-> "loop", retries |-> n, attempts |-> 0, calls |-> <<>>,
     last_exception |-> None, result |-> None]

\* Mutant: the wrapper re-raises the exception of the first invocation.
retry_pass_raising_first(r, outcome) ==
    LET i == Len(r.calls) + 1
        e == IF r.calls = <<>> THEN <<outcome, i>> ELSE r.last_exception
    IN IF outcome = "ok"
       THEN [r EXCEPT !.calls = Append(@, outcome), !.state = "returned",
                      !.result = <<"result", i>>]
       ELSE IF IsException(outcome)
       THEN [r EXCEPT !.calls = Append(@, outcome), !.attempts = @ + 1,
                      !.last_exception = e,
                      !.state = IF r.attempts + 1 <= r.retries
                                THEN "loop" ELSE "raised"]
       ELSE [r EXCEPT !.calls = Append(@, outcome),
                      !.last_exception = <<outcome, i>>, !.state = "raised"]

\* One pass of `while attempts <= retries` (lines 53-66): invocation number
\* i of func ends with `outcome`.  A return ends the wrapper; an Exception
\* is counted and, after the sleep, retried or re-raised; anything else is
\* not caught by `except Exception` and leaves the wrapper at once.
retry_pass(r, outcome) ==
    LET i == Len(r.calls) + 1
    IN IF outcome = "ok"
       THEN [r EXCEPT !.calls = Append(@, outcome), !.state = "returned",
                      !.result = <<"result", i>>]
       ELSE IF IsException(outcome)
       THEN [r EXCEPT !.calls = Append(@, outcome), !.attempts = @ + 1,
                      !.last_exception = <<outcome, i>>,
                      !.state = IF r.attempts + 1 <= r.retries
                                THEN "loop" ELSE "raised"]
       ELSE [r EXCEPT !.calls = Append(@, outcome),
                      !.last_exception = <<outcome, i>>, !.state = "raised"]

\* A call of the wrapped function starts.
RetryCall ==
    /\ retry.state # "loop"
    /\ \E n \in 0 .. MaxRetries : retry' = retry_enter(n)
    /\ UNCHANGED <<messaging, conn, cache, limiter, pager>>

\* The loop makes one more invocation.
RetryPass ==
    /\ retry.state = "loop"
    /\ retry.attempts <= retry.retries
    /\ \E o \in Outcomes : retry' = retry_pass(retry, o)
    /\ UNCHANGED <<messaging, conn, cache, limiter, pager>>

NextRetry ==
    \/ RetryCall
    \/ RetryPass

SpecRetry == Init /\ [][NextRetry]_vars

\* ------------------------------------------------------------- connection decorators
\* python-decorators-0x01/1-with_db_connection.py and 2-transactional.py.
\* A run is what one call of a (decorated) function did and how it ended:
\*   events   the calls made on the connection and of the wrapped function,
\*            in order, each <<name, detail>>
\*   raises   whether the call ended with an exception
\*   value    the result returned, or the exception: <<class, raised by>>
\* stdout is taken to be writable (print does not raise) and conn.rollback()
\* and conn.close() to succeed; func, conn.commit() and sqlite3.connect() can
\* fail.
MaxCalls == 2

\* The wrapped function itself, ending with `outcome`.
run_func(outcome) ==
    [events |-> << <<"func", outcome>> >>,
     raises |-> outcome # "ok",
     value  |-> IF outcome = "ok" THEN <<"result", "func">>
                ELSE <<outcome, "func">>]

\* transactional.wrapper (2-transactional.py:48-62) around the run `inner`,
\* when conn.commit() ends with `commit_outcome`.
transactional(inner, commit_outcome) ==
    IF ~inner.raises
    THEN IF commit_outcome = "ok"
         THEN [inner EXCEPT !.events = @ \o << <<"commit", "ok">> >>]
         ELSE [events |-> inner.events \o << <<"commit", commit_outcome>>,
                                             <<"rollback", "">> >>,
               raises |-> TRUE,
               value  |-> <<commit_outcome, "commit">>]
    ELSE IF IsException(inner.value[1])
    THEN [inner EXCEPT !.events = @ \o << <<"rollback", "">> >>]
    ELSE inner

\* Mutant: the connection is closed after a normal return only.
with_db_connection_no_finally(connect_ok, inner) ==
    IF ~connect_ok
    THEN [events |-> << <<"connect", "OperationalError">> >>,
          raises |-> TRUE, value |-> <<"OperationalError", "connect">>]
    ELSE [inner EXCEPT !.events =
             << <<"connect", "ok">> >> \o @ \o
                 (IF inner.raises THEN <<>> ELSE << <<"close", "">> >>)]

\* with_db_connection.wrapper (1-with_db_connection.py:20-30) around the
\* run `inner`: sqlite3.connect, try: func(conn, ...), finally: conn.close().
with_db_connection(connect_ok, inner) ==
    IF ~connect_ok
    THEN [events |-> << <<"connect", "OperationalError">> >>,
          raises |-> TRUE, value |-> <<"OperationalError", "connect">>]
    ELSE [inner EXCEPT !.events =
             << <<"connect", "ok">> >> \o @ \o << <<"close", "">> >>]

\* The decorated functions of the two modules, and transactional on a
\* connection the caller owns.
Decorated == {"with_db_connection", "transactional",
              "with_db_connection(transactional)"}

\* One call of the function decorated as `how`.
decorated_call(how, connect_ok, outcome, commit_outcome) ==
    IF how = "with_db_connection"
    THEN with_db_connection(connect_ok, run_func(outcome))
    ELSE IF how = "transactional"
    THEN transactional(run_func(outcome), commit_outcome)
    ELSE with_db_connection(connect_ok,
                            transactional(run_func(outcome), commit_outcome))

ConnCall ==
    /\ conn.calls < MaxCalls
    /\ \E how \in Decorated, connect_ok \in BOOLEAN, o \in Outcomes,
          co \in {"ok", "OperationalError"} :
            conn' = [calls |-> conn.calls + 1,
                     log   |-> Append(conn.log,
                                  [how |-> how,
                                   run |-> decorated_call(how, connect_ok,
                                                          o, co)])]
    /\ UNCHANGED <<messaging, retry, cache, limiter, pager>>

NextConn == ConnCall

SpecConn == Init /\ [][NextConn]_vars

\* ------------------------------------------------------------- cache_query
\* python-decorators-0x01/4-cache_query.py.  cache holds
\*   query_cache  the module-level dictionary: the stored result of each
\*                query, <<>> when the query is not a key
\*   db           the version of the content of users.db
\*   executions   how often the wrapped function was called, per query
\*   returns      how often the wrapped function returned, per query
\*   last         the last call of the wrapper: its query, whether it called
\*                the wrapped function, and how it ended
MaxVersion == 2
MaxExecutions == 2

\* cursor.execute(query); cursor.fetchall() on the content `db`.
fetch_users(query, db) == <<"rows", query, db>>

\* Mutant: the wrapper calls the function every time and stores the result.
cache_query_refreshing(c, query, outcome) ==
    [c EXCEPT
        !.executions  = IF query = "" THEN @ ELSE [@ EXCEPT ![query] = @ + 1],
        !.returns     = IF query = "" \/ outcome # "ok" THEN @
                        ELSE [@ EXCEPT ![query] = @ + 1],
        !.query_cache = IF query = "" \/ outcome # "ok" THEN @
                        ELSE [@ EXCEPT ![query] = fetch_users(query, c.db)],
        !.last        = [query |-> query, executed |-> TRUE,
                         raises |-> outcome # "ok",
                         value  |-> IF outcome = "ok"
                                    THEN fetch_users(query, c.db)
                                    ELSE <<outcome>>]]

\* cache_query.wrapper (4-cache_query.py:51-73) called with `query`, when
\* the wrapped function, if it is called, ends with `outcome`.
cache_query(c, query, outcome) ==
    IF query = ""
    THEN [c EXCEPT !.last = [query |-> query, executed |-> TRUE,
                             raises |-> outcome # "ok",
                             value  |-> IF outcome = "ok"
                                        THEN fetch_users(query, c.db)
                                        ELSE <<outcome>>]]
    ELSE IF c.query_cache[query] # <<>>
    THEN [c EXCEPT !.last = [query |-> query, executed |-> FALSE,
                             raises |-> FALSE,
                             value  |-> c.query_cache[query]]]
    ELSE IF outcome = "ok"
    THEN [c EXCEPT !.executions[query] = @ + 1,
                   !.returns[query] = @ + 1,
                   !.query_cache[query] = fetch_users(query, c.db),
                   !.last = [query |-> query, executed |-> TRUE,
                             raises |-> FALSE,
                             value  |-> fetch_users(query, c.db)]]
    ELSE [c EXCEPT !.executions[query] = @ + 1,
                   !.last = [query |-> query, executed |-> TRUE,
                             raises |-> TRUE, value |-> <<outcome>>]]

cache_call(query, outcome) ==
    /\ cache' = cache_query(cache, query, outcome)
    /\ UNCHANGED <<messaging, retry, conn, limiter, pager>>

CacheCall ==
    \E query \in Queries, outcome \in Outcomes :
        /\ (query # "" /\ cache.query_cache[query] = <<>>) =>
               cache.executions[query] < MaxExecutions
        /\ cache_call(query, outcome)

\* Another program changes the content of users.db.
CacheDbWrite ==
    /\ cache.db < MaxVersion
    /\ cache' = [cache EXCEPT !.db = @ + 1]
    /\ UNCHANGED <<messaging, retry, conn, limiter, pager>>

NextCache ==
    \/ CacheCall
    \/ CacheDbWrite

SpecCache == Init /\ [][NextCache]_vars

\* ------------------------------------------------------------- lazy_pagination
\* python-generators-0x00/2-lazy_paginate.py.  pager is one generator object
\* and its consumer:
\*   pc         "none" no generator yet, "created" not started, "suspended"
\*              at the yield, "done" finished
\*   rows       the number of rows of user_data, numbered 1 .. rows
\*   page_size, offset   the generator's argument and local
\*   requested  how often the consumer called next()
\*   stops      how often next() raised StopIteration
\*   fetches    the offsets paginate_users was called with, in order
\*   yielded    the pages handed to the consumer, in order
MaxRows == 6
MaxPage == 3
MaxStops == 2

\* paginate_users: SELECT * FROM user_data LIMIT page_size OFFSET offset.
paginate_users(page_size, offset, rows) ==
    [i \in 1 .. (IF rows - offset < page_size
                 THEN (IF rows > offset THEN rows - offset ELSE 0)
                 ELSE page_size) |-> offset + i]

\* lazy_pagination(page_size): calling the generator function runs none of
\* its body.
lazy_pagination(page_size, rows) ==
    [pc |-> "created", rows |-> rows, page_size |-> page_size, offset |-> 0,
     requested |-> 0, stops |-> 0, fetches |-> <<>>, yielded |-> <<>>]

\* Mutant: the generator yields every page it fetched, the empty one too.
generator_next_yielding_empty(g) ==
    IF g.pc = "done"
    THEN [g EXCEPT !.requested = @ + 1, !.stops = @ + 1]
    ELSE LET offset == IF g.pc = "suspended" THEN g.offset + g.page_size
                       ELSE g.offset
             page   == paginate_users(g.page_size, offset, g.rows)
         IN [g EXCEPT !.requested = @ + 1,
                      !.offset    = offset,
                      !.fetches   = Append(@, offset),
                      !.pc        = IF page = <<>> THEN "done"
                                    ELSE "suspended",
                      !.yielded   = Append(@, page)]

\* next(generator): the body runs from where it stands to the next yield or
\* to its end (2-lazy_paginate.py:38-49).
generator_next(g) ==
    IF g.pc = "done"
    THEN [g EXCEPT !.requested = @ + 1, !.stops = @ + 1]
    ELSE LET offset == IF g.pc = "suspended" THEN g.offset + g.page_size
                       ELSE g.offset
             page   == paginate_users(g.page_size, offset, g.rows)
         IN IF page = <<>>
            THEN [g EXCEPT !.requested = @ + 1,
                           !.stops     = @ + 1,
                           !.offset    = offset,
                           !.fetches   = Append(@, offset),
                           !.pc        = "done"]
            ELSE [g EXCEPT !.requested = @ + 1,
                           !.offset    = offset,
                           !.fetches   = Append(@, offset),
                           !.yielded   = Append(@, page),
                           !.pc        = "suspended"]

PagerCreate ==
    /\ \E page_size \in 0 .. MaxPage, rows \in 0 .. MaxRows :
          pager' = lazy_pagination(page_size, rows)
    /\ UNCHANGED <<messaging, retry, conn, cache, limiter>>

PagerNext ==
    /\ pager.pc # "none"
    /\ pager.stops < MaxStops
    /\ pager' = generator_next(pager)
    /\ UNCHANGED <<messaging, retry, conn, cache, limiter>>

NextPager ==
    \/ PagerCreate
    \/ PagerNext

SpecPager == Init /\ [][NextPager]_vars

\* ------------------------------------------------------------- rate limiter
\* Django-Middleware-0x03/chats/middleware.py, OffensiveLanguageMiddleware.
\* limiter holds
\*   clock          the time datetime.utcnow() returns, in seconds
\*   ip_timestamps  the deque of each address, oldest entry first as stored
\*   threads        each handler thread: "idle", or "stamped" when it has
\*                  computed ip and now (lines 77-79) and waits for the lock
\*   requests       how many requests have arrived
\*   accepted       per address, the timestamps of the requests let through,
\*                  in the order they were let through
\*   last           the last request decided under the lock: its address and
\*                  timestamp, the status (200 passed on, 429 rejected), how
\*                  many recorded timestamps of the address were not older
\*                  than its window_start, and whether its timestamp was
\*                  appended
MaxClock == 3
MaxRequests == 4

\* settings.CHAT_MESSAGE_RATE_LIMIT and CHAT_MESSAGE_RATE_WINDOW_SECONDS
\* (defaults 5 and 60), set small here.
rate_limit == 2
window_seconds == 2

\* while dq and dq[0] < window_start: dq.popleft()
RECURSIVE purge(_, _)
purge(dq, window_start) ==
    IF dq # <<>> /\ dq[1] < window_start
    THEN purge(Tail(dq), window_start)
    ELSE dq

\* The body of `with self._lock` (lines 81-87) for a request of `ip`
\* stamped `stamp`.
limiter_decide(l, ip, stamp) ==
    LET window_start == stamp - window_seconds
        dq     == purge(l.ip_timestamps[ip], window_start)
        inside == Cardinality({i \in 1 .. Len(l.ip_timestamps[ip]) :
                                l.ip_timestamps[ip][i] >= window_start})
    IN IF Len(dq) >= rate_limit
       THEN [l EXCEPT !.ip_timestamps[ip] = dq,
                      !.last = [ip |-> ip, now |-> stamp, status |-> 429,
                                inside |-> inside, appended |-> FALSE]]
       ELSE [l EXCEPT !.ip_timestamps[ip] = Append(dq, stamp),
                      !.accepted[ip] = Append(@, stamp),
                      !.last = [ip |-> ip, now |-> stamp, status |-> 200,
                                inside |-> inside, appended |-> TRUE]]

\* A second passes.
LimiterTick ==
    /\ limiter.clock < MaxClock
    /\ limiter' = [limiter EXCEPT !.clock = @ + 1]
    /\ UNCHANGED <<messaging, retry, conn, cache, pager>>

\* A request that is not a POST to /api/messages is passed on untouched
\* (line 76, line 88).
LimiterPass ==
    /\ limiter.requests < MaxRequests
    /\ \E t \in Handlers, ip \in IPs :
          /\ limiter.threads[t].pc = "idle"
          /\ limiter' = [limiter EXCEPT
                            !.requests = @ + 1,
                            !.last = [ip |-> ip, now |-> limiter.clock,
                                      status |-> 200, inside |-> 0,
                                      appended |-> FALSE]]
    /\ UNCHANGED <<messaging, retry, conn, cache, pager>>

\* A handler thread starts on a POST to /api/messages: ip, now and
\* window_start are computed before the lock is taken (lines 77-79).
LimiterStamp ==
    /\ limiter.requests < MaxRequests
    /\ \E t \in Handlers, ip \in IPs :
          /\ limiter.threads[t].pc = "idle"
          /\ limiter' = [limiter EXCEPT
                            !.requests = @ + 1,
                            !.threads[t] = [pc |-> "stamped", ip |-> ip,
                                            now |-> limiter.clock]]
    /\ UNCHANGED <<messaging, retry, conn, cache, pager>>

\* The thread gets the lock and runs lines 81-87 in one piece.
LimiterDecide ==
    /\ \E t \in Handlers :
          /\ limiter.threads[t].pc = "stamped"
          /\ limiter' = [limiter_decide(limiter, limiter.threads[t].ip,
                                        limiter.threads[t].now)
                            EXCEPT !.threads[t] =
                                      [pc |-> "idle", ip |-> "", now |-> 0]]
    /\ UNCHANGED <<messaging, retry, conn, cache, pager>>

NextLimiter ==
    \/ LimiterTick
    \/ LimiterPass
    \/ LimiterStamp
    \/ LimiterDecide

SpecLimiter == Init /\ [][NextLimiter]_vars

\* ------------------------------------------------------------- claims
\* The rows of message m in creation order (ids come from AUTOINCREMENT).
RECURSIVE ById(_)
ById(rows) ==
    IF rows = {} THEN <<>>
    ELSE LET first == CHOOSE h \in rows : \A g \in rows : h.id <= g.id
         IN <<first>> \o ById(rows \ {first})

\* C1: after any sequence of message creations and edits every existing
\* message has exactly one Notification referencing it.
C1_OneNotificationPerMessage ==
    \A m \in Ids : Cardinality(NotificationsOf(m)) = 1

\* C1 witness: a message edited twice (two revisions) still has its single
\* notification.
C1_Witness ==
    \E m \in Ids :
        /\ messages[m].edited
        /\ Cardinality(HistoryOf(m)) = 2
        /\ Cardinality(NotificationsOf(m)) = 1
        /\ response.op = "save"

\* C2: a Revision is created if and only if a save of an already persisted
\* message changes its stored content; such a save creates exactly one, for
\* that message, and the creation of a message creates none.
C2_RevisionIffContentChanged ==
    [][LET changed == {m \in Ids \cap DOMAIN messages' :
                          messages'[m].content # messages[m].content}
       IN /\ histories \subseteq histories'
          /\ Cardinality(histories' \ histories) = Cardinality(changed)
          /\ \A h \in histories' \ histories : h.message \in changed
          /\ Cardinality(changed) <= 1]_vars

\* C2 witness: a message with two revisions whose content has been changed
\* twice, and another message, created and never changed, with none.
C2_Witness ==
    \E m, k \in Ids :
        /\ Cardinality(HistoryOf(m)) = 2
        /\ messages[m].content = "Z"
        /\ HistoryOf(k) = {}
        /\ ~messages[k].edited

\* C3: for sequential edits of one message the revisions, in creation order,
\* record the successive overwritten contents: the edit that replaces content
\* a adds, as the newest revision, one whose old_content is a, and revisions
\* are never rewritten afterwards.
C3_RevisionsRecordOverwrittenContent ==
    [][\A m \in Ids \cap DOMAIN messages' :
          LET before == ById(HistoryOf(m))
              after  == ById({h \in histories' : h.message = m})
          IN IF messages'[m].content # messages[m].content
             THEN /\ Len(after) = Len(before) + 1
                  /\ SubSeq(after, 1, Len(before)) = before
                  /\ after[Len(after)].old_content = messages[m].content
             ELSE after = before]_vars

\* C3 witness: content X edited to Y and then to Z left the revisions X, Y.
C3_Witness ==
    \E m \in Ids :
        /\ messages[m].content = "Z"
        /\ Len(ById(HistoryOf(m))) = 2
        /\ ById(HistoryOf(m))[1].old_content = "X"
        /\ ById(HistoryOf(m))[2].old_content = "Y"

\* The messages on the parent chain of m, m included.
RECURSIVE AncestorsOrSelf(_, _)
AncestorsOrSelf(m, msgs) ==
    IF msgs[m].parent_message = None \/ msgs[m].parent_message \notin DOMAIN msgs
    THEN {m}
    ELSE {m} \cup AncestorsOrSelf(msgs[m].parent_message, msgs)

Owns(u, m) == messages[m].sender = u \/ messages[m].receiver = u

\* Message m is the same row, with the same notifications, after the step.
Intact(m) ==
    /\ m \in DOMAIN messages'
    /\ messages'[m].sender = messages[m].sender
    /\ messages'[m].receiver = messages[m].receiver
    /\ messages'[m].parent_message = messages[m].parent_message
    /\ messages'[m].content = messages[m].content
    /\ {n \in notifications' : n.message = m} = NotificationsOf(m)
    /\ NotificationsOf(m) # {}

\* C6: after an identity is removed no Revision remains whose editor was that
\* identity, whatever message it is attached to: every row that named the
\* identity as editor before the removal is gone after it.
C6_EditorRevisionsPurged ==
    [][\A u \in users \ users' :
          \A h \in histories :
              h.edited_by = u => \A g \in histories' : g.id # h.id]_vars

\* C7: removing an identity deletes every message it sent or received with
\* the notifications and revisions attached to them: no message names a
\* removed identity, and no notification or revision is attached to a
\* message that no longer exists.
C7_OwnedRowsCascade ==
    /\ \A m \in Ids : messages[m].sender \in users /\ messages[m].receiver \in users
    /\ \A n \in notifications : n.message \in Ids /\ n.user \in users
    /\ \A h \in histories : h.message \in Ids

\* C7 witness: an account deletion has removed messages, notifications and
\* revisions.
C7_Witness ==
    /\ response.op = "delete_user" /\ response.status = 200
    /\ response.user \notin users
    /\ lastId.message > Cardinality(Ids)
    /\ lastId.notification > Cardinality(notifications)
    /\ lastId.history > Cardinality(histories)

\* C8 as stated: removing an identity leaves intact every message whose
\* sender and receiver are both other identities.
C8_OthersMessagesIntact ==
    [][\A u \in users \ users' :
          \A m \in Ids : ~Owns(u, m) => Intact(m)]_vars

\* C8 amended: removing an identity leaves intact every message that neither
\* names it as sender or receiver nor is a reply, at any depth, to a message
\* that does; this includes a message the removed identity edited.
C8_UnrelatedMessagesIntact ==
    [][\A u \in users \ users' :
          \A m \in Ids :
              (\A a \in AncestorsOrSelf(m, messages) : ~Owns(u, a))
                  => Intact(m)]_vars

\* C8 witness: after an account deletion a message survives, with its
\* notification, whose last editor and whose revision's editor was the
\* removed identity (every edit of SpecDelete names an editor, so a NULL
\* editor is a removed one).
C8_Witness ==
    /\ response.op = "delete_user" /\ response.status = 200
    /\ \E m \in Ids :
          /\ messages[m].edited /\ messages[m].edited_by = None
          /\ \E h \in HistoryOf(m) : h.edited_by = None
          /\ Cardinality(NotificationsOf(m)) = 1

\* C5: the message insert and the notification insert succeed or fail
\* together: in every state a reader can see, every existing message has its
\* notification.
C5_MessageImpliesNotification ==
    \A m \in Ids : NotificationsOf(m) # {}

\* C9: identity deletion is all-or-nothing.  A deletion whose purge fails
\* changes no table; a step that removes identity u leaves no message that
\* names u as sender or receiver, no notification of u and no revision whose
\* editor is u; a step that removes no identity deletes no row and clears no
\* editor reference.
C9_DeletionAllOrNothing ==
    [][/\ (response'.op = "delete_user" /\ response'.status = 500)
            => UNCHANGED <<users, messages, notifications, histories>>
       /\ \A u \in users \ users' :
            /\ \A m \in DOMAIN messages' :
                  messages'[m].sender # u /\ messages'[m].receiver # u
            /\ \A n \in notifications' : n.user # u
            /\ \A h \in histories' : h.edited_by # u
       /\ users' = users =>
            /\ Ids \subseteq DOMAIN messages'
            /\ \A n \in notifications : \E k \in notifications' : k.id = n.id
            /\ \A h \in histories : \E g \in histories' :
                  g.id = h.id /\ g.edited_by = h.edited_by]_vars

\* C9 witness: the purge of an account deletion failed and the identity is
\* still there with a message it owns, that message's notification and
\* revision, and a revision it made on a message of two other identities.
C9_Witness ==
    /\ response.op = "delete_user" /\ response.status = 500
    /\ response.user \in users
    /\ \E m \in Ids :
          /\ Owns(response.user, m)
          /\ NotificationsOf(m) # {}
          /\ HistoryOf(m) # {}
    /\ \E h \in histories :
          h.edited_by = response.user /\ ~Owns(response.user, h.message)

\* The ids of a tree's nodes, parents before children.
RECURSIVE Flatten(_)
Flatten(t) ==
    LET RECURSIVE Concat(_)
        Concat(i) == IF i > Len(t.replies) THEN <<>>
                     ELSE Flatten(t.replies[i]) \o Concat(i + 1)
    IN <<t.id>> \o Concat(1)

\* Every node's children are replies to it, in ascending creation time.
RECURSIVE WellFormed(_)
WellFormed(t) ==
    /\ \A i \in 1 .. Len(t.replies) :
          /\ messages[t.replies[i].id].parent_message = t.id
          /\ WellFormed(t.replies[i])
    /\ \A i, j \in 1 .. Len(t.replies) :
          i < j => messages[t.replies[i].id].created_at
                      <= messages[t.replies[j].id].created_at

\* The thread of root r: r and its transitive descendants.
ThreadOf(r) == {m \in Ids : r \in AncestorsOrSelf(m, messages)}

\* C10: the tree built for a thread holds every message of the thread (the
\* root and all its transitive descendants) exactly once, each node under
\* its own parent, the children of every node by ascending creation time.
C10_TreeHoldsThreadOnce ==
    (response.op = "thread_detail" /\ response.status = 200) =>
        LET t == response.tree
            flat == Flatten(t)
        IN /\ messages[t.id].parent_message = None
           /\ Range(flat) = ThreadOf(t.id)
           /\ Len(flat) = Cardinality(ThreadOf(t.id))
           /\ WellFormed(t)

\* C10 witness: root 1 with replies 2 and 3, and 4 replying to 2: the tree
\* is 1[2[4], 3], four nodes.
C10_Witness ==
    /\ response.op = "thread_detail" /\ response.status = 200
    /\ Ids = 1 .. 4
    /\ messages[2].parent_message = 1 /\ messages[3].parent_message = 1
    /\ messages[4].parent_message = 2
    /\ Len(Flatten(response.tree)) = 4
    /\ Flatten(response.tree) = <<1, 2, 4, 3>>
    /\ Len(response.tree.replies) = 2
    /\ Len(response.tree.replies[1].replies) = 1

\* C4: concurrent edits of one message never snapshot a value staler than
\* the one they overwrite.  Messages of SpecConc start with content X and are
\* only ever edited to Y or Z, so at most one revision of a message records
\* X; and once no save of the message is in flight, two revisions are X
\* followed by the content the first committer wrote, which the second
\* committer has replaced.
C4_ConcurrentEditsSnapshotCurrent ==
    \A m \in Ids :
        LET rows == ById(HistoryOf(m))
        IN /\ Cardinality({h \in HistoryOf(m) : h.old_content = "X"}) <= 1
           /\ ((\A w \in Workers : pc[w] = "idle") /\ Len(rows) = 2) =>
                 /\ rows[1].old_content = "X"
                 /\ rows[2].old_content \in {"Y", "Z"}
                 /\ rows[2].old_content # messages[m].content

\* The ancestor of m that has no parent (parent links without a cycle).
RootOf(m) ==
    CHOOSE r \in AncestorsOrSelf(m, messages) : messages[r].parent_message = None

C12_TreeIndependentOfEntryPoint ==
    /\ \A m \in Ids, tie \in {"asc", "desc"} :
          LET t == build_thread_tree(m, messages, tie)
          IN /\ t = build_thread_tree(RootOf(m), messages, tie)
             /\ t.id = RootOf(m)
             /\ messages[t.id].parent_message = None
    /\ (response.op = "thread_detail" /\ response.status = 200) =>
          /\ response.tree.id = RootOf(response.message)
          /\ \A k \in ThreadOf(response.tree.id) :
                \E tie \in {"asc", "desc"} :
                    response.tree = build_thread_tree(k, messages, tie)

\* C12 witness: a tree served for an entry point two levels below the root
\* of a thread that also has a second branch.
C12_Witness ==
    /\ response.op = "thread_detail" /\ response.status = 200
    /\ LET m == response.message
       IN /\ messages[m].parent_message # None
          /\ messages[messages[m].parent_message].parent_message
                = response.tree.id
          /\ Len(response.tree.replies) = 2

\* C13: the unread inbox answers the caller with the messages addressed to
\* it whose read flag is false, and only those, newest first.
C13_UnreadInboxServesUnreadForCaller ==
    response.op = "unread_inbox" =>
        /\ response.status = 200
        /\ "results" \in DOMAIN response
        /\ LET r == response.results
           IN /\ \A i \in 1 .. Len(r) :
                    /\ messages[r[i].id].receiver = response.user
                    /\ ~messages[r[i].id].read
              /\ \A i, j \in 1 .. Len(r) :
                    i < j => messages[r[i].id].created_at
                                >= messages[r[j].id].created_at

C15_SenderIsCaller ==
    [][\A caller \in {1, 2}, data \in Bodies :
          create_message_request(caller, data, TRUE) =>
              \A m \in DOMAIN messages' \ Ids : messages'[m].sender = caller]_vars

\* C15 witness: messages sent by user 1 and by user 2 exist after a send
\* was answered 201, and none names user 3, the sender the bodies carry.
C15_Witness ==
    /\ response.op = "create_message" /\ response.status = 201
    /\ \E m, k \in Ids : messages[m].sender = 1 /\ messages[k].sender = 2
    /\ \A m \in Ids : messages[m].sender # 3

\* C16: a send is rejected when its content is empty after trimming, when
\* its receiver does not exist or when its parent id names no message, and
\* a rejected send leaves every table unchanged.
C16_InvalidSendRejectedStoreUnchanged ==
    [][\A caller \in {1, 2}, data \in Bodies :
          create_message_request(caller, data, TRUE) =>
              LET r == Get(data, "receiver_id", None)
                  c == Get(data, "content", "")
                  p == Get(data, "parent_id", None)
                  invalid == \/ Strip(c) = ""
                             \/ r \notin users
                             \/ p # None /\ p \notin Ids
              IN /\ invalid => response'.status \in {400, 404}
                 /\ response'.status # 201 => tables' = tables]_vars

\* C16 witness: a reply to a message that does not exist was refused while
\* one message and its notification are stored.
C16_Witness ==
    /\ response.op = "create_message" /\ response.status = 404
    /\ Cardinality(Ids) = 1
    /\ Cardinality(notifications) = 1

\* Row a was created before row b.  The clock of the model is coarse: of
\* two rows with the same created_at the one with the smaller id is older.
Precedes(a, b) ==
    \/ messages[a].created_at < messages[b].created_at
    \/ messages[a].created_at = messages[b].created_at /\ a < b

\* C17: in every state, the parent of every message that has one exists and
\* was created before it, so the parent links have no cycle.
C17_ParentExistsAndPrecedes ==
    \A m \in Ids :
        messages[m].parent_message # None =>
            /\ messages[m].parent_message \in Ids
            /\ Precedes(messages[m].parent_message, m)

\* C18: no write to an existing message changes its sender, its receiver or
\* its parent; only content, edited, edited_at and edited_by may differ.
C18_SenderReceiverParentImmutable ==
    [][\A m \in Ids \cap DOMAIN messages' :
          /\ messages'[m].sender = messages[m].sender
          /\ messages'[m].receiver = messages[m].receiver
          /\ messages'[m].parent_message = messages[m].parent_message
          /\ messages'[m].created_at = messages[m].created_at
          /\ messages'[m].id = messages[m].id]_vars

\* The message n parent links above m, None when the chain ends before.
RECURSIVE Walk(_, _)
Walk(m, n) ==
    IF n = 0 \/ m = None THEN m
    ELSE Walk(messages[m].parent_message, n - 1)

\* The parent chain of m never ends: it runs into a cycle.
MeetsCycle(m) == Walk(m, Cardinality(Ids)) # None

\* C19: when the upward walk from the requested message meets an id a
\* second time, thread retrieval fails with an error: it does not go
\* unanswered (status 0) and it serves no tree (200).
C19_CycleFailsWithConsistencyViolation ==
    (response.op = "thread_detail" /\ response.message \in Ids
        /\ MeetsCycle(response.message)) =>
            /\ response.status \notin {0, 200}
            /\ "tree" \notin DOMAIN response

\* C20: when the message write of an edit fails, no revision created for
\* that edit remains: the revisions are those stored before the edit.
C20_FailedEditLeavesNoRevision ==
    [][(response'.op = "save" /\ response'.status = 500) =>
          histories' = histories]_vars

\* C21: a content-changing edit sets edited to true and adds a revision that
\* records the overwritten content and, as editor, the editor the caller
\* supplied for that write, null when the caller supplied none.
C21_RevisionNamesSuppliedEditor ==
    [][\A m \in Ids, c \in Contents, a \in BOOLEAN, e \in {3, None} :
          (save_message(m, c, a, e) /\ c # messages[m].content) =>
              /\ messages'[m].edited
              /\ \E h \in histories' \ histories :
                    /\ h.message = m
                    /\ h.old_content = messages[m].content
                    /\ h.edited_by = IF a THEN e ELSE None]_vars

\* C22: every content-changing edit sets edited_at to the time of that
\* edit, the second and later edits of a message included (no caller of the
\* model sets edited_at itself).
C22_EditedAtIsLatestChange ==
    [][\A m \in Ids \cap DOMAIN messages' :
          messages'[m].content # messages[m].content =>
              messages'[m].edited_at = now]_vars

\* C23: a save of an existing message with the content it already has
\* leaves edited and edited_at as they were and creates no revision, also
\* when the caller supplies an editor.
C23_UnchangedContentNoEditedState ==
    [][\A m \in Ids \cap DOMAIN messages' :
          messages'[m].content = messages[m].content =>
              /\ messages'[m].edited = messages[m].edited
              /\ messages'[m].edited_at = messages[m].edited_at
              /\ {h \in histories' : h.message = m} = HistoryOf(m)]_vars

\* C23 witness: a message saved with editor 3 and its own content: the
\* editor is stored, the message is not marked edited and has no revision.
C23_Witness ==
    /\ response.op = "save"
    /\ \E m \in Ids :
          /\ messages[m].edited_by = 3
          /\ ~messages[m].edited
          /\ messages[m].edited_at = None
          /\ HistoryOf(m) = {}

\* C24 as stated: the notification of a message goes to its receiver, never
\* to its sender, and is unread.
C24_NotificationForReceiverNeverSender ==
    \A n \in notifications :
        /\ n.user = messages[n.message].receiver
        /\ n.user # messages[n.message].sender
        /\ ~n.is_read

\* C24 amended: the notification of a message goes to its receiver and is
\* unread; it goes to the sender only when the sender is the receiver.
C24_NotificationForReceiver ==
    \A n \in notifications :
        /\ n.user = messages[n.message].receiver
        /\ n.user = messages[n.message].sender =>
              messages[n.message].sender = messages[n.message].receiver
        /\ ~n.is_read
        /\ NotificationsOf(n.message) = {n}

\* C24 witness: a message from user 1 to user 2 whose only notification is
\* for user 2, and a message user 2 sent to itself.
C24_Witness ==
    /\ \E m \in Ids :
          /\ messages[m].sender = 1 /\ messages[m].receiver = 2
          /\ \A n \in NotificationsOf(m) : n.user = 2 /\ ~n.is_read
          /\ NotificationsOf(m) # {}
    /\ \E m \in Ids : messages[m].sender = 2 /\ messages[m].receiver = 2

\* C25: thread retrieval for a message id that does not exist answers 404
\* (NotFound) and returns no tree.
C25_UnknownMessageIsNotFound ==
    (response.op = "thread_detail" /\ response.message \notin Ids) =>
        /\ response.status = 404
        /\ "tree" \notin DOMAIN response

\* C25 witness: with messages stored, a retrieval of an id that is not among
\* them was answered 404.
C25_Witness ==
    /\ Ids # {}
    /\ response.op = "thread_detail"
    /\ response.message \notin Ids
    /\ response.status = 404

\* The status codes the views and Django's error handling can answer with.
Codes == {200, 201, 400, 403, 404, 500}

\* The codes create_message answers with in the current state when the body
\* is invalid: no receiver id, or a content that is blank.
ValidationCodes ==
    {code \in Codes :
        \E r \in {2, None}, c \in {"X", "", " "}, p \in Ids \cup {None} :
            /\ r = None \/ Strip(c) = ""
            /\ ENABLED (create_message(1, r, c, p, TRUE)
                          /\ response'.status = code)}

\* The codes answered in the current state when something named by a valid
\* request does not exist: the receiver, the parent, or the message to read.
NotFoundCodes ==
    {code \in Codes :
        \/ ENABLED (create_message(1, 4, "X", None, TRUE)
                      /\ response'.status = code)
        \/ \E p \in (1 .. MaxThread + 1) \ Ids :
              ENABLED (create_message(1, 2, "X", p, TRUE)
                        /\ response'.status = code)
        \/ \E m \in (1 .. MaxThread + 1) \ Ids :
              ENABLED (thread_detail(1, m, "asc") /\ response'.status = code)}

\* The codes thread_detail answers with in the current state to a caller who
\* takes no part in the root or in the entry message.
ForbiddenCodes ==
    {code \in Codes :
        \E caller \in Users, m \in Ids :
            /\ messages[climb(m, {}, messages)].parent_message = None
            /\ ~may_read_thread(caller, climb(m, {}, messages), m, messages)
            /\ ENABLED (thread_detail(caller, m, "asc")
                          /\ response'.status = code)}

\* C26: every error kind has one code of its own: the codes of
\* ValidationError, NotFound and Forbidden are pairwise different, so an
\* absent receiver can be told from an empty content by the code.
C26_ErrorKindsHaveDistinctCodes ==
    /\ Cardinality(ValidationCodes) <= 1
    /\ Cardinality(NotFoundCodes) <= 1
    /\ Cardinality(ForbiddenCodes) <= 1
    /\ ValidationCodes \cap NotFoundCodes = {}
    /\ ValidationCodes \cap ForbiddenCodes = {}
    /\ NotFoundCodes \cap ForbiddenCodes = {}

\* C27: the inbox lists exactly the caller's root messages, at most the 50
\* most recent of them, newest first, each with the number of its direct
\* replies only.
C27_InboxListsRecentRootsWithDirectReplyCount ==
    response.op = "inbox_threads" =>
        LET res   == response.results
            roots == {m \in Ids : /\ messages[m].receiver = response.user
                                  /\ messages[m].parent_message = None}
            shown == {res[i].id : i \in 1 .. Len(res)}
        IN /\ shown \subseteq roots
           /\ Cardinality(shown) = Len(res)
           /\ Len(res) = IF Cardinality(roots) < 50
                         THEN Cardinality(roots) ELSE 50
           /\ \A m \in roots \ shown : \A k \in shown :
                 messages[m].created_at <= messages[k].created_at
           /\ \A i, j \in 1 .. Len(res) :
                 i < j => messages[res[i].id].created_at
                              >= messages[res[j].id].created_at
           /\ \A i \in 1 .. Len(res) :
                 res[i].reply_count =
                     Cardinality({c \in Ids :
                                     messages[c].parent_message = res[i].id})

\* C27 witness: an inbox of more than 50 roots written at two different
\* times: 50 are listed and the oldest are left out.
C27_Witness ==
    /\ response.op = "inbox_threads"
    /\ Len(response.results) = 50
    /\ \E m \in Ids :
          /\ messages[m].receiver = response.user
          /\ messages[m].parent_message = None
          /\ \A i \in 1 .. 50 :
                /\ response.results[i].id # m
                /\ messages[m].created_at
                      < messages[response.results[i].id].created_at

\* C28: every traversal of a thread ends, on every parent graph that can be
\* stored: the loop of get_all_replies fetches one level per pass, so on a
\* store of n messages it has ended after at most n fetches.
C28_TraversalEndsWithinStoredLevels ==
    \A w \in Workers :
        pc[w] \in {"fetch", "walked"} => inst[w].fetches <= Cardinality(Ids)

\* The depth of message m below the top of its parent chain.
Depth(m) == Cardinality(AncestorsOrSelf(m, messages)) - 1

\* The number of levels below message r.
LevelsBelow(r) ==
    LET below == {Depth(m) - Depth(r) : m \in ThreadOf(r)}
    IN CHOOSE d \in below : \A e \in below : e <= d

\* C29: with no write during the traversal, get_all_replies of the root
\* returns the transitive descendants of the root and nothing else, each
\* once, never the root, in non-decreasing depth, after one fetch per level
\* below the root plus the one that comes back empty.
C29_DescendantsBreadthFirstOnce ==
    (pc[1] \in {"fetch", "walked"} /\ inst[1].before = Ids) =>
        LET r    == inst[1].root.id
            desc == RowIds(inst[1].descendants)
        IN /\ Range(desc) \subseteq ThreadOf(r) \ {r}
           /\ \A i, j \in 1 .. Len(desc) : i # j => desc[i] # desc[j]
           /\ \A i, j \in 1 .. Len(desc) :
                 i < j => Depth(desc[i]) <= Depth(desc[j])
           /\ pc[1] = "walked" =>
                 /\ Range(desc) = ThreadOf(r) \ {r}
                 /\ inst[1].fetches = LevelsBelow(r) + 1

\* C29 witness: a traversal without concurrent writes that returned a reply
\* and a reply to that reply, after three fetches.
C29_Witness ==
    /\ pc[1] = "walked"
    /\ inst[1].before = Ids
    /\ inst[1].fetches = 3
    /\ \E i, j \in 1 .. Len(inst[1].descendants) :
          /\ inst[1].descendants[i].parent_message = inst[1].root.id
          /\ inst[1].descendants[j].parent_message = inst[1].descendants[i].id

\* C30: when replies are inserted while the view fetches level by level,
\* the tree answered holds every message that was in the thread when the
\* last traversal began, holds no message twice, holds only stored messages
\* of the thread, and holds the parent of every node but the root.
C30_TreeUnderConcurrentInserts ==
    [][(walk_next(1) /\ inst[1].stage = 3) =>
          LET r     == inst[1].root.id
              nodes == Flatten(response'.tree)
          IN /\ nodes[1] = r
             /\ \A m \in inst[1].before :
                   r \in AncestorsOrSelf(m, messages) => m \in Range(nodes)
             /\ \A i, j \in 1 .. Len(nodes) : i # j => nodes[i] # nodes[j]
             /\ Range(nodes) \subseteq ThreadOf(r)
             /\ \A i \in 2 .. Len(nodes) :
                   messages[nodes[i]].parent_message \in Range(nodes)]_vars

\* C30 witness: a tree was answered that lacks a stored reply of its
\* thread, inserted while the view was fetching, and holds another reply.
C30_Witness ==
    /\ response.op = "thread_detail"
    /\ response.status = 200
    /\ Len(response.tree.replies) > 0
    /\ \E m \in ThreadOf(response.tree.id) :
          \A i \in 1 .. Len(Flatten(response.tree)) :
              Flatten(response.tree)[i] # m

\* C31: after any sequence of sends, edits, message deletions and account
\* deletions no reference dangles: every notification and every revision
\* names a stored message, every notification names an existing user, and
\* every message names an existing sender and receiver and, if it has a
\* parent, a stored parent.
C31_NoDanglingReferences ==
    /\ \A n \in notifications : n.message \in Ids /\ n.user \in users
    /\ \A h \in histories : h.message \in Ids
    /\ \A m \in Ids :
          /\ messages[m].sender \in users
          /\ messages[m].receiver \in users
          /\ messages[m].parent_message # None =>
                messages[m].parent_message \in Ids

\* C31 witness: after a message deletion, with an account gone, a reply
\* with its notification and an edited message with its revision remain.
C31_Witness ==
    /\ response.op = "message_delete"
    /\ users # Users
    /\ \E m \in Ids : messages[m].parent_message # None
    /\ notifications # {}
    /\ histories # {}

\* C32: deleting a message deletes exactly that message and its replies at
\* every depth; deleting an account leaves exactly the messages of which
\* neither the message itself nor any ancestor was sent or received by the
\* account.
C32_CascadeThroughReplies ==
    [][/\ \A m \in Ids :
            message_delete(m) =>
                DOMAIN messages' =
                    {x \in Ids : m \notin AncestorsOrSelf(x, messages)}
       /\ \A u \in users :
            delete_user(u, "POST", TRUE) =>
                DOMAIN messages' =
                    {x \in Ids : \A a \in AncestorsOrSelf(x, messages) :
                        /\ messages[a].sender # u
                        /\ messages[a].receiver # u}]_vars

\* C32 witness: the account of user 3 has just been deleted; of the
\* MaxMsgs + 1 messages user 1 sent, one is left.
C32_Witness ==
    /\ response.op = "delete_user" /\ response.status = 200
    /\ response.user = 3
    /\ lastId.message = MaxMsgs + 1
    /\ Cardinality(Ids) = 1

\* C33: a function wrapped by retry_on_failure(retries=N) is invoked at most
\* N + 1 times; the wrapper returns the result of the first invocation that
\* does not raise and invokes nothing after it; when all N + 1 invocations
\* raise it raises the exception of the last one; the loop never runs on
\* without an invocation left to make.
C33_RetryBoundedReturnsFirstSuccess ==
    LET n == Len(retry.calls)
    IN /\ n <= retry.retries + 1
       /\ \A i \in 1 .. n - 1 : IsException(retry.calls[i])
       /\ retry.state = "returned" =>
             /\ n >= 1 /\ retry.calls[n] = "ok"
             /\ retry.result = <<"result", n>>
       /\ retry.state = "raised" =>
             /\ n >= 1 /\ retry.calls[n] # "ok"
             /\ retry.last_exception = <<retry.calls[n], n>>
             /\ IsException(retry.calls[n]) => n = retry.retries + 1
       /\ retry.state = "loop" => n <= retry.retries

\* C33 witness: with retries = 2, three invocations raised and the wrapper
\* raised the exception of the third, which differs from the first.
C33_Witness ==
    /\ retry.state = "raised"
    /\ retry.retries = 2
    /\ Len(retry.calls) = 3
    /\ retry.calls[1] # retry.calls[3]
    /\ retry.last_exception = <<retry.calls[3], 3>>

\* The positions in the events of run r of the events named `name`.
At(r, name) == {i \in 1 .. Len(r.events) : r.events[i][1] = name}

\* The successful commits of run r.
Commits(r) == {i \in At(r, "commit") : r.events[i][2] = "ok"}

\* The exceptions raised inside run r by the wrapped function or by commit.
RaisedInside(r) ==
    {<<r.events[i][2], r.events[i][1]>> :
        i \in {j \in At(r, "func") \cup At(r, "commit") :
                 r.events[j][2] # "ok"}}

\* C34: a call of a function wrapped by transactional ends in one of two
\* ways: it returns and the connection was committed once and not rolled
\* back, or it raises the exception raised inside it and the connection was
\* rolled back once and not committed.
C34_CommitXorRollback ==
    \A k \in 1 .. Len(conn.log) :
        LET r == conn.log[k].run
        IN (conn.log[k].how # "with_db_connection" /\ At(r, "func") # {}) =>
              \/ /\ ~r.raises
                 /\ Cardinality(Commits(r)) = 1
                 /\ At(r, "rollback") = {}
              \/ /\ r.raises
                 /\ Cardinality(At(r, "rollback")) = 1
                 /\ Commits(r) = {}
                 /\ r.value \in RaisedInside(r)

\* C35: a call through with_db_connection that opened a connection closes
\* it once, as its last act, on return and on exception alike, after the
\* wrapped function and after any commit or rollback.
C35_ClosedOnceAfterEverything ==
    \A k \in 1 .. Len(conn.log) :
        LET r == conn.log[k].run
        IN (conn.log[k].how # "transactional"
                /\ \E i \in At(r, "connect") : r.events[i][2] = "ok") =>
              /\ At(r, "close") = {Len(r.events)}
              /\ At(r, "func") # {}
              /\ \A i \in At(r, "func") \cup At(r, "commit")
                        \cup At(r, "rollback") :
                    i < Len(r.events)

\* C35 witness: a call through with_db_connection over transactional whose
\* function raised: rollback, then close, and the exception reached the
\* caller; and one whose function returned: commit, then close.
C35_Witness ==
    /\ \E k \in 1 .. Len(conn.log) :
          /\ conn.log[k].how = "with_db_connection(transactional)"
          /\ conn.log[k].run.raises
          /\ conn.log[k].run.events =
                << <<"connect", "ok">>, <<"func", "ValueError">>,
                   <<"rollback", "">>, <<"close", "">> >>
    /\ \E k \in 1 .. Len(conn.log) :
          /\ conn.log[k].how = "with_db_connection(transactional)"
          /\ ~conn.log[k].run.raises
          /\ conn.log[k].run.events =
                << <<"connect", "ok">>, <<"func", "ok">>,
                   <<"commit", "ok">>, <<"close", "">> >>

\* C36 as written: the wrapped function is executed at most once per
\* distinct non-empty query string.
C36_ExecutedAtMostOncePerQuery ==
    \A q \in CachedQueries : cache.executions[q] <= 1

\* C36 amended: once the wrapped function has returned for a non-empty
\* query, every later call with that query returns the stored result
\* without calling the function, so the function returns at most once per
\* query; no step removes or changes a stored entry, whatever happens to
\* the database; a call whose function raises stores nothing, and the next
\* call with that query calls the function again.
C36_StoredResultIsFinal ==
    [][/\ \A q \in CachedQueries :
             /\ cache.query_cache[q] # <<>> =>
                    cache'.query_cache[q] = cache.query_cache[q]
             /\ cache'.returns[q] <= 1
       /\ \A q \in Queries, o \in Outcomes :
             cache_call(q, o) =>
                IF q # "" /\ cache.query_cache[q] # <<>>
                THEN /\ ~cache'.last.executed
                     /\ ~cache'.last.raises
                     /\ cache'.last.value = cache.query_cache[q]
                     /\ cache'.executions = cache.executions
                ELSE /\ cache'.last.executed
                     /\ cache'.last.raises = (o # "ok")
                     /\ q # "" => cache'.executions[q] = cache.executions[q] + 1
                     /\ q = "" \/ o # "ok" =>
                            cache'.query_cache = cache.query_cache
                     /\ q # "" /\ o = "ok" =>
                            cache'.query_cache[q] = cache'.last.value]_vars

\* C36 witness: a query was executed twice, the first call raised and
\* stored nothing, the second returned; the database changed afterwards and
\* the last call returned the stored rows, which are not the current ones.
C36_Witness ==
    \E q \in CachedQueries :
        /\ cache.executions[q] = 2
        /\ cache.returns[q] = 1
        /\ cache.last.query = q
        /\ ~cache.last.executed
        /\ cache.last.value = cache.query_cache[q]
        /\ cache.last.value # fetch_users(q, cache.db)

\* C38: the generator fetches at offsets 0, page_size, 2 * page_size, ...,
\* one fetch per page the consumer asked for and none ahead of it; it
\* yields every non-empty page in order, and ends at the first empty page
\* without yielding it and without fetching again.
C38_OneFetchPerRequestedPage ==
    /\ \A i \in 1 .. Len(pager.fetches) :
          pager.fetches[i] = (i - 1) * pager.page_size
    /\ pager.requested = Len(pager.yielded) + pager.stops
    /\ Len(pager.fetches) =
          Len(pager.yielded) + (IF pager.stops > 0 THEN 1 ELSE 0)
    /\ \A i \in 1 .. Len(pager.yielded) :
          /\ pager.yielded[i] # <<>>
          /\ pager.yielded[i] =
                paginate_users(pager.page_size, pager.fetches[i], pager.rows)
    /\ (pager.pc = "done") = (pager.stops > 0)
    /\ pager.pc = "done" =>
          paginate_users(pager.page_size,
                         pager.fetches[Len(pager.fetches)], pager.rows) = <<>>

\* C38 witness: a generator over 5 rows with page_size 2 has yielded three
\* pages, the last a short one, and has ended at the fourth, empty page;
\* a further next() raised StopIteration without a fetch.
C38_Witness ==
    /\ pager.pc = "done"
    /\ pager.rows = 5
    /\ pager.page_size = 2
    /\ pager.yielded = << <<1, 2>>, <<3, 4>>, <<5>> >>
    /\ pager.fetches = <<0, 2, 4, 6>>
    /\ pager.requested = 5

\* C37: per address, no window of window_seconds holds the timestamps of
\* more than rate_limit requests that were let through, whatever the
\* interleaving of the handler threads; a rejected request is not recorded;
\* and a request is rejected only when at least rate_limit recorded
\* timestamps of its address are inside its window.
C37_QuotaPerRollingWindow ==
    /\ \A ip \in IPs, start \in 0 .. MaxClock :
          Cardinality({i \in 1 .. Len(limiter.accepted[ip]) :
                          /\ limiter.accepted[ip][i] >= start
                          /\ limiter.accepted[ip][i] < start + window_seconds})
              <= rate_limit
    /\ limiter.last.status = 429 =>
          /\ ~limiter.last.appended
          /\ limiter.last.inside >= rate_limit

===========================================================================
